---- MODULE Spec2Model ----
(***************************************************************************)
(* A model of the TALE language engine (src/tale_engine.py):               *)
(*   - TaleInterpreter.input_provider : the input tape and its coercion    *)
(*   - TaleInterpreter.to_python      : the line scanner / block cursor    *)
(*   - run_tale_code, analyze_tale_code : the two engine entry points      *)
(* Text is modelled as sequences: a raw input is a sequence of characters, *)
(* a source line is a sequence of lexical tokens (a string literal is one).*)
(***************************************************************************)
EXTENDS Integers, Sequences, FiniteSets, TLC

VARIABLES
    code,         \* TaleInterpreter.code: the source, a sequence of lines
    inputs,       \* TaleInterpreter.inputs: the input tape
    input_index,  \* TaleInterpreter._input_index: the private cursor
    calls,        \* history: the outcome of every call so far of the method under
                  \* study (input_provider, _transform_expr)
    phase,        \* position of the running entry point
    line_no,      \* to_python: number of source lines consumed so far
    indent,       \* to_python: the block cursor
    in_note,      \* to_python: inside a multi-line note
    py_lines,     \* to_python: the emitted statements
    scan_exc,     \* to_python: the exception it raised, or NoExc
    analysis,     \* the record returned by analyze_tale_code, or NoResult
    ip,           \* exec: index in the translated program of the next statement
    env,          \* exec: exec_env restricted to the names user code binds
    output,       \* run_tale_code: output_buffer
    host_calls,   \* commands handed to the host's os.system
    result,       \* the record returned by run_tale_code, or NoResult
    escaped,      \* the exception that left run_tale_code, or NoExc
    printed,      \* history: the text of every write the program has made
    runs,         \* two invocations of run_tale_code in one process: their locals
    sys_stdout    \* the stream sys.stdout names: 0 the process's own stream,
                  \* r the output_buffer of invocation r

vars == <<code, inputs, input_index, calls, phase, line_no, indent, in_note,
          py_lines, scan_exc, analysis, ip, env, output, host_calls, result,
          escaped, printed, runs, sys_stdout>>

\* ------------------------------------------------------------------ bounds
MaxRawLen == 2      \* characters in one raw input (input-tape specification)
MaxInputs == 2      \* raw inputs on the tape (input-tape specification)
MaxCalls == 4       \* input_provider calls made in one run (input-tape specification)

\* ------------------------------------------------------------ common values
NoExc == [type |-> "NoExc", msg |-> <<>>]      \* no exception raised
NoneValue == [type |-> "NoneType"]              \* Python's None as a value

Min(a, b) == IF a < b THEN a ELSE b
Max(a, b) == IF a > b THEN a ELSE b

RECURSIVE SeqsUpTo(_, _)
SeqsUpTo(S, n) ==
    IF n = 0 THEN {<<>>}
    ELSE LET shorter == SeqsUpTo(S, n - 1)
         IN  shorter \cup {Append(s, x) : s \in {t \in shorter : Len(t) = n - 1}, x \in S}

\* ------------------------------------------------- input tape and coercion
Chars == {"+", "-", "0", "1", ".", "a", " ", "\n"}
Digits == {"0", "1", "2", "3", "4", "5", "6", "7", "8", "9"}
SignChars == {"+", "-"}

DigitVal(c) ==
    CASE c = "0" -> 0 [] c = "1" -> 1 [] c = "2" -> 2 [] c = "3" -> 3
      [] c = "4" -> 4 [] c = "5" -> 5 [] c = "6" -> 6 [] c = "7" -> 7
      [] c = "8" -> 8 [] c = "9" -> 9

HasSign(s) == Len(s) > 0 /\ s[1] \in SignChars
Unsigned(s) == IF HasSign(s) THEN Tail(s) ELSE s
SignOf(s) == IF HasSign(s) /\ s[1] = "-" THEN -1 ELSE 1
AllDigits(s) == \A i \in 1..Len(s) : s[i] \in Digits
DotPositions(s) == {i \in 1..Len(s) : s[i] = "."}

\* re.fullmatch(r"[+-]?\d+", value)
MatchInt(value) ==
    LET body == Unsigned(value)
    IN  Len(body) >= 1 /\ AllDigits(body)

\* re.fullmatch(r"[+-]?(\d+\.\d*|\d*\.\d+)", value)
MatchFloat(value) ==
    LET body == Unsigned(value)
    IN  /\ Cardinality(DotPositions(body)) = 1
        /\ LET p == CHOOSE i \in DotPositions(body) : TRUE
               whole == SubSeq(body, 1, p - 1)
               frac == SubSeq(body, p + 1, Len(body))
           IN  /\ AllDigits(whole) /\ AllDigits(frac)
               /\ (Len(whole) >= 1 \/ Len(frac) >= 1)

RECURSIVE DigitsValue(_)
DigitsValue(s) ==
    IF s = <<>> THEN 0
    ELSE 10 * DigitsValue(SubSeq(s, 1, Len(s) - 1)) + DigitVal(s[Len(s)])

RECURSIVE Normalize(_, _)
Normalize(num, scale) ==
    IF scale > 0 /\ num % 10 = 0 THEN Normalize(num \div 10, scale - 1)
    ELSE [num |-> num, scale |-> scale]

\* int(value): a Python int
IntOf(value) == [type |-> "int", num |-> SignOf(value) * DigitsValue(Unsigned(value)), scale |-> 0]

\* float(value): the number num / 10^scale, in lowest decimal terms
FloatOf(value) ==
    LET body == Unsigned(value)
        p == CHOOSE i \in DotPositions(body) : TRUE
        whole == SubSeq(body, 1, p - 1)
        frac == SubSeq(body, p + 1, Len(body))
        n == Normalize(DigitsValue(whole \o frac), Len(frac))
    IN  [type |-> "float", num |-> SignOf(value) * n.num, scale |-> n.scale]

StrOf(value) == [type |-> "str", text |-> value]

InputExhausted ==
    [type |-> "InputExhausted",
     msg |-> <<"No more inputs", " ", "were supplied. Add values in the Inputs box (one per line).">>]

\* a coercion that knows integers only
CoerceIntOnly(value) == IF MatchInt(value) THEN IntOf(value) ELSE StrOf(value)

\* The value input_provider returns for the raw input it has just taken.
Coerce(value) ==
    IF MatchInt(value) THEN IntOf(value)
    ELSE IF MatchFloat(value) THEN FloatOf(value)
    ELSE StrOf(value)

\* an input_provider that forgets to advance its cursor
InputProviderNoAdvance(tape, index) ==
    IF index < Len(tape)
    THEN [raised |-> NoExc, value |-> Coerce(tape[index + 1]), index |-> index]
    ELSE [raised |-> InputExhausted, value |-> NoneValue, index |-> index]

\* TaleInterpreter.input_provider, as a function of the interpreter's fields:
\* what the call returns or raises, and the cursor it leaves behind.
InputProvider(tape, index) ==
    IF index < Len(tape)
    THEN [raised |-> NoExc, value |-> Coerce(tape[index + 1]), index |-> index + 1]
    ELSE [raised |-> InputExhausted, value |-> NoneValue, index |-> index]

CallRecord(r) ==
    IF r.raised = NoExc THEN [raised |-> NoExc, value |-> r.value]
    ELSE [raised |-> r.raised, value |-> NoneValue]

\* ------------------------------------------------------------ source text
\* A line is the sequence of its lexical tokens, separated where the source
\* has whitespace or punctuation; a quoted string literal is one token.
Q3 == "\"\"\""                          \* the note delimiter
LenRun == "len len ... len"              \* more nested `len ` helpers than the
                                         \* Python recursion limit allows
StringLits == {"\"os\"", "\"echo x\"", "\"a\""}
NumberLits == {"1"}
KeywordConstants == {"True", "False", "None"}
Identifiers == {"a", "e", "x", "error", "result", "sys", "os", "exit", "system",
                "socket", "path", "evil", "len", "true", "__import__", "id", "stdout",
                "write", "catch", "returned", "yields", "raised", "ed", "s", "d",
                "Exception"}
\* the words of the vocabulary that Python reserves
PyKeywords == {"is", "lambda", "for", "in", "return", "yield", "raise", "if", "else",
               "elif", "try", "finally", "import", "from", "as"}
\* the words that match [A-Za-z_][\w]*
NameShaped == Identifiers \cup PyKeywords
\* the characters that switch the call shorthand off: "+-*/%<>=:()[]{}.,"
\* (`->` is the two of them that spell the lambda arrow)
OperatorChars == {"+", "-", "*", "/", "%", "<", ">", "=", ":", "(", ")", "[", "]", "{", "}",
                  ".", ",", "->"}

\* str.lower() on a token
Lower(w) == IF w = "END" THEN "end" ELSE w

Strip(line) == line                      \* tokens carry no surrounding blanks
FirstIs(line, kw) == Len(line) >= 1 /\ Lower(line[1]) = kw
\* lowered.startswith(kw + " "): the keyword and something after it
StartsWith(line, kw) == Len(line) >= 2 /\ Lower(line[1]) = kw
\* lowered == kw
IsWord(line, kw) == Len(line) = 1 /\ Lower(line[1]) = kw
EndsWithDelim(line) == Len(line) >= 1 /\ line[Len(line)] = Q3

DigitChar(d) ==
    CASE d = 0 -> "0" [] d = 1 -> "1" [] d = 2 -> "2" [] d = 3 -> "3"
      [] d = 4 -> "4" [] d = 5 -> "5" [] d = 6 -> "6" [] d = 7 -> "7"
      [] d = 8 -> "8" [] d = 9 -> "9"

\* str(n) for a natural number, as its decimal digits
RECURSIVE DecDigits(_)
DecDigits(n) ==
    IF n < 10 THEN <<DigitChar(n)>>
    ELSE Append(DecDigits(n \div 10), DigitChar(n % 10))

\* ------------------------------------------------------------- exceptions
Exc(type, msg) == [type |-> type, msg |-> msg]
\* f"I could not understand: {line.strip()}"
CouldNotUnderstand(line) == Exc("TaleSyntaxError", <<"I could not understand:", " ">> \o Strip(line))
RecursionError == Exc("RecursionError", <<"maximum recursion depth exceeded">>)
\* the classes `except Exception` catches
ExceptionTypes == {"TaleSyntaxError", "RecursionError", "InputExhausted", "NameError",
                   "ImportError", "AttributeError", "TypeError", "SyntaxError"}

\* ---------------------------------------------------- expression rewriter
LooksLikeString(expr) ==
    /\ Len(expr) >= 1
    /\ expr[1] \in StringLits
    /\ expr[Len(expr)] \in StringLits

\* the keyword substitutions at the end of _transform_expr, on one token
NormalizeKeyword(w) == IF w = "true" THEN "True" ELSE w

\* ', '.join(args), each argument a token sequence
RECURSIVE JoinTokens(_)
JoinTokens(args) ==
    IF args = <<>> THEN <<>>
    ELSE IF Len(args) = 1 THEN args[1]
    ELSE args[1] \o <<",">> \o JoinTokens(Tail(args))

\* TaleInterpreter._transform_expr on the expressions of the vocabulary:
\* string literals pass, `id of X` and `len X` recurse, a word followed by
\* blank-separated words and literals becomes a call (the call shorthand),
\* everything else is left as it is up to the keyword substitutions.
RECURSIVE TransformExpr(_)
TransformExpr(expr) ==
    IF LooksLikeString(expr) THEN [exc |-> NoExc, text |-> expr]
    ELSE IF Len(expr) >= 3 /\ expr[1] = "id" /\ expr[2] = "of"
    THEN LET inner == TransformExpr(SubSeq(expr, 3, Len(expr)))
         IN  IF inner.exc # NoExc THEN inner
             ELSE [exc |-> NoExc, text |-> <<"id", "(">> \o inner.text \o <<")">>]
    ELSE IF Len(expr) >= 2 /\ expr[1] = LenRun THEN [exc |-> RecursionError, text |-> <<>>]
    ELSE IF Len(expr) >= 2 /\ expr[1] = "len"
    THEN LET inner == TransformExpr(Tail(expr))
         IN  IF inner.exc # NoExc THEN inner
             ELSE [exc |-> NoExc, text |-> <<"len", "(">> \o inner.text \o <<")">>]
    ELSE IF /\ Len(expr) >= 2 /\ expr[1] \in NameShaped
            /\ \A i \in 1..Len(expr) : expr[i] \notin OperatorChars
    THEN [exc |-> NoExc,
          text |-> <<expr[1], "(">>
                   \o JoinTokens([i \in 1..(Len(expr) - 1) |-> TransformExpr(<<expr[i + 1]>>).text])
                   \o <<")">>]
    ELSE [exc |-> NoExc, text |-> [i \in 1..Len(expr) |-> NormalizeKeyword(expr[i])]]

\* ------------------------------------------------- Python expression trees
Node(kind, name, sub) == [kind |-> kind, name |-> name, sub |-> sub]
SyntaxErrorNode == Node("SyntaxError", "", <<>>)
ParseFail == [ok |-> FALSE, node |-> SyntaxErrorNode, next |-> 0]

\* ast.parse(expr, mode="eval") for the grammar
\*   expr    ::= "lambda" [NAME] ":" expr | primary
\*   primary ::= atom ("." NAME | "(" [expr | expr comp] ")" | "[" expr "]")*
\*   atom    ::= NAME | literal | "f" STRING | "(" ")" | "(" expr [comp] ")"
\*             | "[" "]" | "[" expr [comp] "]" | "{" "}" | "{" expr [comp] "}"
\*   comp    ::= "for" NAME "in" primary
\* An f-prefixed string literal is the token "f" followed by the literal.
\* A parse result: the node read and the index of the first token after it.
RECURSIVE ParseTrailers(_, _), ParseAtom(_, _), ParseExpr(_, _), ParseBracket(_, _)
Parsed(node, next) == [ok |-> TRUE, node |-> node, next |-> next]
\* the trailers that follow the primary `p`
ParseTrailers(t, p) ==
    IF ~p.ok \/ p.next > Len(t) \/ t[p.next] \notin {".", "(", "["} THEN p
    ELSE ParseTrailers(t,
        IF t[p.next] = "."
        THEN (IF p.next + 1 <= Len(t) /\ t[p.next + 1] \in Identifiers
              THEN Parsed(Node("Attribute", t[p.next + 1], <<p.node>>), p.next + 2)
              ELSE ParseFail)
        ELSE IF p.next + 1 <= Len(t) /\ t[p.next] = "(" /\ t[p.next + 1] = ")"
        THEN Parsed(Node("Call", "", <<p.node>>), p.next + 2)
        ELSE IF t[p.next] = "("
        THEN CHOOSE r \in {IF ~arg.ok THEN ParseFail
                           ELSE Parsed(Node("Call", "", <<p.node,
                                            IF arg.node.kind = "Comp"
                                            THEN Node("GeneratorExp", "", arg.node.sub)
                                            ELSE arg.node>>), arg.next)
                           : arg \in {ParseBracket(t, p.next)}} : TRUE
        ELSE CHOOSE r \in {IF idx.ok /\ idx.next <= Len(t) /\ t[idx.next] = "]"
                           THEN Parsed(Node("Subscript", "", <<p.node, idx.node>>), idx.next + 1)
                           ELSE ParseFail
                           : idx \in {ParseExpr(t, p.next + 1)}} : TRUE)
\* the inside of a bracket that opens at i: one expression, or an element and
\* one `for NAME in iterable` clause (kind "Comp"), up to the matching closer
ParseBracket(t, i) ==
    CHOOSE r \in
      {IF ~elt.ok \/ elt.next > Len(t) THEN ParseFail
       ELSE IF t[elt.next] = close THEN Parsed(elt.node, elt.next + 1)
       ELSE IF elt.next + 3 <= Len(t) /\ t[elt.next] = "for"
               /\ t[elt.next + 1] \in Identifiers /\ t[elt.next + 2] = "in"
       THEN CHOOSE c \in
              {IF iter.ok /\ iter.next <= Len(t) /\ t[iter.next] = close
               THEN Parsed(Node("Comp", "", <<elt.node,
                               Node("comprehension", "",
                                    <<Node("NameStore", t[elt.next + 1], <<>>), iter.node>>)>>),
                           iter.next + 1)
               ELSE ParseFail
               : iter \in {ParseTrailers(t, ParseAtom(t, elt.next + 3))}} : TRUE
       ELSE ParseFail
       : elt \in {ParseExpr(t, i + 1)},
         close \in {CASE t[i] = "(" -> ")" [] t[i] = "[" -> "]" [] t[i] = "{" -> "}"}} : TRUE
ParseAtom(t, i) ==
    IF i > Len(t) THEN ParseFail
    ELSE IF t[i] \in Identifiers THEN Parsed(Node("Name", t[i], <<>>), i + 1)
    ELSE IF t[i] \in StringLits \cup NumberLits \cup KeywordConstants
    THEN Parsed(Node("Constant", t[i], <<>>), i + 1)
    ELSE IF t[i] = "f" /\ i + 1 <= Len(t) /\ t[i + 1] \in StringLits
    THEN Parsed(Node("JoinedStr", "", <<Node("Constant", t[i + 1], <<>>)>>), i + 2)
    ELSE IF i + 1 <= Len(t) /\ t[i] = "(" /\ t[i + 1] = ")"
    THEN Parsed(Node("Tuple", "", <<>>), i + 2)
    ELSE IF i + 1 <= Len(t) /\ t[i] = "[" /\ t[i + 1] = "]"
    THEN Parsed(Node("List", "", <<>>), i + 2)
    ELSE IF i + 1 <= Len(t) /\ t[i] = "{" /\ t[i + 1] = "}"
    THEN Parsed(Node("Dict", "", <<>>), i + 2)
    ELSE IF t[i] \in {"(", "[", "{"}
    THEN CHOOSE r \in
           {IF ~b.ok THEN ParseFail
            ELSE IF b.node.kind = "Comp"
            THEN Parsed(Node(CASE t[i] = "(" -> "GeneratorExp" [] t[i] = "[" -> "ListComp"
                               [] t[i] = "{" -> "SetComp", "", b.node.sub), b.next)
            ELSE IF t[i] = "(" THEN b
            ELSE Parsed(Node(IF t[i] = "[" THEN "List" ELSE "Set", "", <<b.node>>), b.next)
            : b \in {ParseBracket(t, i)}} : TRUE
    ELSE ParseFail
ParseExpr(t, i) ==
    IF i <= Len(t) /\ t[i] = "lambda"
    THEN CHOOSE r \in
           {IF after # 0 /\ body.ok
            THEN Parsed(Node("Lambda", "",
                             <<Node("arguments", "",
                                    IF after = i + 3 THEN <<Node("arg", t[i + 1], <<>>)>> ELSE <<>>),
                               body.node>>), body.next)
            ELSE ParseFail
            : after \in {IF i + 2 <= Len(t) /\ t[i + 1] \in Identifiers /\ t[i + 2] = ":"
                         THEN i + 3
                         ELSE IF i + 1 <= Len(t) /\ t[i + 1] = ":" THEN i + 2 ELSE 0},
              body \in {ParseExpr(t, IF i + 2 <= Len(t) /\ t[i + 1] \in Identifiers
                                        /\ t[i + 2] = ":" THEN i + 3 ELSE i + 2)}} : TRUE
    ELSE ParseTrailers(t, ParseAtom(t, i))

\* the whole of `t` read by the grammar rule `Rule`, or a SyntaxError
ParseWith(Rule(_, _), t) ==
    CHOOSE n \in {IF r.ok /\ r.next = Len(t) + 1 THEN r.node ELSE SyntaxErrorNode
                  : r \in {Rule(t, 1)}} : TRUE

\* ast.parse(expr, mode="eval")
PyParse(expr) == ParseWith(ParseExpr, expr)

\* the node classes ast.walk yields for a tree: every node, the expression
\* context of the nodes that have one, and nothing for an absent child
RECURSIVE NodeKinds(_)
NodeKinds(n) ==
    (IF n.kind = "NameStore" THEN {"Name", "Store"}
     ELSE IF n.kind \in {"Name", "Attribute", "List", "Tuple", "Subscript"} THEN {n.kind, "Load"}
     ELSE {n.kind})
    \cup UNION {NodeKinds(n.sub[i]) : i \in 1..Len(n.sub)}

AllowedNodes ==
    {"Expression", "BinOp", "UnaryOp", "BoolOp", "Compare", "Call", "Name", "Constant",
     "Load", "Add", "Sub", "Mult", "Div", "Mod", "FloorDiv", "Pow", "And", "Or", "Not",
     "USub", "UAdd", "Eq", "NotEq", "Lt", "LtE", "Gt", "GtE", "List", "Tuple", "Dict",
     "Set", "ListComp", "DictComp", "SetComp", "GeneratorExp", "comprehension", "IfExp",
     "Subscript", "Slice", "Attribute", "Lambda"}

\* TaleInterpreter._validate_expr: the exception it raises, or NoExc
ValidateExpr(expr, line) ==
    LET tree == PyParse(expr)
    IN  IF tree.kind = "SyntaxError" THEN CouldNotUnderstand(line)
        ELSE IF \E k \in NodeKinds(tree) \cup {"Expression"} : k \notin AllowedNodes
        THEN CouldNotUnderstand(line)
        ELSE NoExc

\* TaleInterpreter._validate_name: the exception it raises, or NoExc
ValidateName(name, line) ==
    IF Len(name) = 1 /\ name[1] \in NameShaped THEN NoExc
    ELSE CouldNotUnderstand(line)

\* ---------------------------------------------------------- line translator
PadWidth == 4                            \* _pad: "    " * max(indent, 0)
\* a pad of one space per level
PadOneSpace(ind) == Max(ind, 0)
Pad(ind) == PadWidth * Max(ind, 0)

\* One target statement: `op` names its form, `name` the identifier it binds
\* (if any), `exprs` the expressions or module path it carries.
Stmt(op, name, exprs) == [op |-> op, name |-> name, exprs |-> exprs]
NoStmt == Stmt("none", "", <<>>)
Translated(stmt, opens) == [exc |-> NoExc, stmt |-> stmt, opens |-> opens]
Failed(exc) == [exc |-> exc, stmt |-> NoStmt, opens |-> FALSE]

\* rewrite, then validate, one expression of a line
CheckedExpr(part, line) ==
    LET t == TransformExpr(part)
    IN  IF t.exc # NoExc THEN t
        ELSE [exc |-> ValidateExpr(t.text, line), text |-> t.text]

\* TaleInterpreter._split_args (a string literal is one token, so a comma
\* token is always outside quotes)
RECURSIVE SplitArgs(_)
SplitArgs(text) ==
    LET commas == {i \in 1..Len(text) : text[i] = ","}
    IN  IF commas = {} THEN (IF text = <<>> THEN <<>> ELSE <<text>>)
        ELSE LET c == CHOOSE i \in commas : \A j \in commas : i <= j
             IN  <<SubSeq(text, 1, c - 1)>> \o SplitArgs(SubSeq(text, c + 1, Len(text)))

\* positions of an ` as ` inside an ask body
InteriorAs(body) == {i \in 2..(Len(body) - 1) : body[i] = "as"}

\* the `say <args>` branch (the vocabulary has no top-level `+` payload)
TranslateSay(line) ==
    LET parts == SplitArgs(Tail(line))
        done == [i \in 1..Len(parts) |-> CheckedExpr(parts[i], line)]
        bad == {i \in 1..Len(parts) : done[i].exc # NoExc}
    IN  IF bad # {}
        THEN Failed(done[CHOOSE i \in bad : \A j \in bad : i <= j].exc)
        ELSE Translated(Stmt("print", "", [i \in 1..Len(parts) |-> done[i].text]), FALSE)

\* the `ask ...` branch: `ask <name>`, `ask <prompt> as <name>`, `ask <prompt>`
TranslateAsk(line) ==
    LET body == Tail(line)
    IN  IF InteriorAs(body) # {}
        THEN LET k == CHOOSE i \in InteriorAs(body) : \A j \in InteriorAs(body) : i <= j
                 prompt == CheckedExpr(SubSeq(body, 1, k - 1), line)
                 var == SubSeq(body, k + 1, Len(body))
             IN  IF prompt.exc # NoExc THEN Failed(prompt.exc)
                 ELSE IF ValidateName(var, line) # NoExc THEN Failed(ValidateName(var, line))
                 ELSE Translated(Stmt("ask", var[1], <<prompt.text>>), FALSE)
        ELSE IF Len(body) = 1 /\ body[1] \in Identifiers
        THEN Translated(Stmt("ask", body[1], <<>>), FALSE)
        ELSE LET prompt == CheckedExpr(body, line)
             IN  IF prompt.exc # NoExc THEN Failed(prompt.exc)
                 ELSE Translated(Stmt("ask", "", <<prompt.text>>), FALSE)

\* positions of an ` in ` after `for each`
InteriorIn(line) == {i \in 3..(Len(line) - 1) : line[i] = "in"}

\* the `for each <name> in <expr>` branch: the iterable is rewritten and the
\* name is validated
TranslateForEach(line) ==
    LET k == CHOOSE i \in InteriorIn(line) : \A j \in InteriorIn(line) : i <= j
        var_name == SubSeq(line, 3, k - 1)
        expr == TransformExpr(SubSeq(line, k + 1, Len(line)))
    IN  IF expr.exc # NoExc THEN Failed(expr.exc)
        ELSE IF ValidateName(var_name, line) # NoExc THEN Failed(ValidateName(var_name, line))
        ELSE Translated(Stmt("for", var_name[1], <<expr.text>>), TRUE)

\* the `say formatted <fmt>` branch: fmt gets an f prefix unless it starts
\* with the letter f, and is validated
TranslateSayFormatted(line) ==
    LET fmt == SubSeq(line, 3, Len(line))
        py_expr == IF fmt[1] = "f" THEN fmt ELSE <<"f">> \o fmt
    IN  IF ValidateExpr(py_expr, line) # NoExc THEN Failed(ValidateExpr(py_expr, line))
        ELSE Translated(Stmt("print", "", <<py_expr>>), FALSE)

\* lowered.startswith(kw) for kw one of return, yield, raise: the words of
\* the vocabulary that begin with the letters of kw, and the letters each has
\* after them
Spelled ==
    {[word |-> "return", kw |-> "return", rest |-> ""],
     [word |-> "returned", kw |-> "return", rest |-> "ed"],
     [word |-> "yield", kw |-> "yield", rest |-> ""],
     [word |-> "yields", kw |-> "yield", rest |-> "s"],
     [word |-> "raise", kw |-> "raise", rest |-> ""],
     [word |-> "raised", kw |-> "raise", rest |-> "d"]}
BeginsWith(line, kw) == \E p \in Spelled : p.kw = kw /\ p.word = Lower(line[1])
\* stripped[len(kw):].strip()
AfterLetters(line, kw) ==
    LET p == CHOOSE q \in Spelled : q.kw = kw /\ q.word = Lower(line[1])
    IN  IF p.rest = "" THEN Tail(line) ELSE <<p.rest>> \o Tail(line)

\* the return, yield and raise branches: the expression is what follows the
\* letters of the keyword, or the branch's default when nothing follows
TranslateKeyword(line, kw, default) ==
    LET tail == AfterLetters(line, kw)
        c == IF tail = <<>> THEN [exc |-> NoExc, text |-> default] ELSE TransformExpr(tail)
    IN  IF tail = <<>> /\ kw = "return" THEN Translated(Stmt("return", "", <<>>), FALSE)
        ELSE IF c.exc # NoExc THEN Failed(c.exc)
        ELSE IF ValidateExpr(c.text, line) # NoExc THEN Failed(ValidateExpr(c.text, line))
        ELSE Translated(Stmt(kw, "", <<c.text>>), FALSE)

\* positions of an ` is ` inside a line
InteriorIs(line) == {i \in 2..(Len(line) - 1) : Lower(line[i]) = "is"}

\* the assignment branch, `<name> is <expr>`: the name is validated, then
\* the expression is rewritten and validated
TranslateAssignment(line) ==
    LET k == CHOOSE i \in InteriorIs(line) : \A j \in InteriorIs(line) : i <= j
        var == SubSeq(line, 1, k - 1)
        c == CheckedExpr(SubSeq(line, k + 1, Len(line)), line)
    IN  IF ValidateName(var, line) # NoExc THEN Failed(ValidateName(var, line))
        ELSE IF c.exc # NoExc THEN Failed(c.exc)
        ELSE Translated(Stmt("assign", var[1], <<c.text>>), FALSE)

\* TaleInterpreter._translate_line, for the statement forms of the vocabulary
TranslateLine(line) ==
    IF StartsWith(line, "if")
    THEN LET c == CheckedExpr(Tail(line), line)
         IN  IF c.exc # NoExc THEN Failed(c.exc)
             ELSE Translated(Stmt("if", "", <<c.text>>), TRUE)
    ELSE IF IsWord(line, "try") THEN Translated(Stmt("try", "", <<>>), TRUE)
    ELSE IF Len(line) >= 3 /\ line[1] = "for" /\ line[2] = "each" /\ InteriorIn(line) # {}
    THEN TranslateForEach(line)
    ELSE IF Len(line) >= 3 /\ line[1] = "say" /\ line[2] = "formatted"
    THEN TranslateSayFormatted(line)
    ELSE IF StartsWith(line, "say") THEN TranslateSay(line)
    ELSE IF StartsWith(line, "ask") THEN TranslateAsk(line)
    ELSE IF BeginsWith(line, "return") THEN TranslateKeyword(line, "return", <<>>)
    ELSE IF BeginsWith(line, "yield") THEN TranslateKeyword(line, "yield", <<"None">>)
    ELSE IF BeginsWith(line, "raise") THEN TranslateKeyword(line, "raise", <<"Exception", "(", ")">>)
    ELSE IF StartsWith(line, "import") THEN Translated(Stmt("import", "", <<Tail(line)>>), FALSE)
    ELSE IF StartsWith(line, "from") THEN Translated(Stmt("from", "", <<Tail(line)>>), FALSE)
    ELSE IF InteriorIs(line) # {} THEN TranslateAssignment(line)
    ELSE LET c == CheckedExpr(line, line)
         IN  IF c.exc # NoExc THEN Failed(c.exc)
             ELSE Translated(Stmt("expr", "", <<c.text>>), FALSE)

\* ------------------------------------------------------------- to_python
\* f"Line {line_no}: {exc}"
LinePrefix(n) == <<"Line", " ">> \o DecDigits(n) \o <<":", " ">>
WrapLine(n, exc) == Exc("TaleSyntaxError", LinePrefix(n) \o exc.msg)

ScanState(n, ind, note, py, exc) ==
    [line_no |-> n, indent |-> ind, in_note |-> note, py_lines |-> py, exc |-> exc]
ScanStart == ScanState(0, 0, FALSE, <<>>, NoExc)

Emit(py, ind, stmt) == Append(py, [pad |-> Pad(ind), stmt |-> stmt])

\* a dedent that is not clamped at the top level
DedentUnclamped(ind) == ind - 1
\* indent = max(indent - 1, 0)
Dedent(ind) == Max(ind - 1, 0)

\* One iteration of the loop of to_python: the scanner's state after the
\* line numbered st.line_no + 1, `raw_line`, has been handled.
ScanStep(st, raw_line) ==
    LET n == st.line_no + 1
        stripped == Strip(raw_line)
        dedent == Dedent(st.indent)
        skip == ScanState(n, st.indent, st.in_note, st.py_lines, NoExc)
    IN  IF st.in_note
        THEN ScanState(n, st.indent, ~EndsWithDelim(stripped), st.py_lines, NoExc)
        ELSE IF stripped = <<>> \/ stripped[1] = "#" THEN skip
        ELSE IF StartsWith(stripped, "note") /\ stripped[2] = Q3
        THEN ScanState(n, st.indent, ~EndsWithDelim(stripped), st.py_lines, NoExc)
        ELSE IF IsWord(stripped, "end")
        THEN ScanState(n, dedent, FALSE, st.py_lines, NoExc)
        ELSE IF StartsWith(stripped, "elif")
        THEN LET c == CheckedExpr(Tail(stripped), raw_line)
             IN  IF c.exc # NoExc
                 THEN ScanState(n, dedent, FALSE, st.py_lines, c.exc)
                 ELSE ScanState(n, dedent + 1, FALSE,
                                Emit(st.py_lines, dedent, Stmt("elif", "", <<c.text>>)), NoExc)
        ELSE IF IsWord(stripped, "else")
        THEN ScanState(n, dedent + 1, FALSE, Emit(st.py_lines, dedent, Stmt("else", "", <<>>)), NoExc)
        ELSE IF StartsWith(stripped, "catch")
        THEN LET err_name == IF Tail(stripped) = <<>> THEN <<"error">> ELSE Tail(stripped)
                 bad == ValidateName(err_name, raw_line)
             IN  IF bad # NoExc
                 THEN ScanState(n, dedent, FALSE, st.py_lines, bad)
                 ELSE ScanState(n, dedent + 1, FALSE,
                                Emit(st.py_lines, dedent, Stmt("except", err_name[1], <<>>)), NoExc)
        ELSE IF IsWord(stripped, "finally")
        THEN ScanState(n, dedent + 1, FALSE, Emit(st.py_lines, dedent, Stmt("finally", "", <<>>)), NoExc)
        ELSE LET t == TranslateLine(raw_line)
             IN  IF t.exc # NoExc
                 THEN ScanState(n, st.indent, FALSE, st.py_lines, WrapLine(n, t.exc))
                 ELSE ScanState(n, IF t.opens THEN st.indent + 1 ELSE st.indent, FALSE,
                                Emit(st.py_lines, st.indent, t.stmt), NoExc)

\* to_python on a whole source: the scanner's last state; its py_lines are
\* the lines of the returned text, its exc the exception raised instead.
RECURSIVE ScanFrom(_, _)
ScanFrom(st, lines) ==
    IF lines = <<>> \/ st.exc # NoExc THEN st
    ELSE ScanFrom(ScanStep(st, Head(lines)), Tail(lines))

\* a to_python that returns what it has emitted when a line fails
ToPythonPartial(source) ==
    LET st == ScanFrom(ScanStart, source)
    IN  ScanState(st.line_no, st.indent, st.in_note, st.py_lines, NoExc)

ToPython(source) == ScanFrom(ScanStart, source)

\* ------------------------------------------------------ sandboxed executor
AllowedImports == {"math", "random", "datetime", "json", "csv", "os", "sys"}
\* the names run_tale_code installs in exec_env (safe_globals)
SafeGlobals ==
    {"__builtins__", "__name__", "input_provider", "print", "math", "random", "datetime",
     "json", "csv", "os", "sys", "read_json", "write_json", "read_csv", "write_csv",
     "_open_file", "_add_to"}
\* the keys of the table _build_safe_builtins returns
SafeBuiltins ==
    {"__import__", "abs", "all", "any", "bool", "dict", "enumerate", "filter", "float",
     "int", "len", "list", "map", "max", "min", "next", "print", "range", "round", "set",
     "sorted", "str", "sum", "tuple", "zip", "open", "id", "type", "Exception"}

Module(name) == [type |-> "module", name |-> name]
Function(name) == [type |-> "function", name |-> name]
ExcValue(exc) == [type |-> "exception", exc |-> exc]
IntValue(n) == [type |-> "int", num |-> n, scale |-> 0]
\* a list object and the address the allocator gave it
ListValue(items, addr) == [type |-> "list", items |-> items, addr |-> addr]
\* the text stream that sys.stdout names at the moment it is read
Stream == [type |-> "stream", name |-> "sys.stdout"]

\* The addresses the allocator can hand to a new object. The statement that
\* is executing finds the address of its next allocation in the execution
\* environment under AllocName, a name no program can write.
Addresses == {1, 2}
AllocName == "<alloc>"

Bind(e, name, v) == [x \in DOMAIN e \cup {name} |-> IF x = name THEN v ELSE e[x]]
Unbind(e, names) == [x \in DOMAIN e \ names |-> e[x]]

\* the text between the quotes of a string literal
LiteralContent(tok) ==
    CASE tok = "\"os\"" -> <<"os">>
      [] tok = "\"echo x\"" -> <<"echo", " ", "x">>
      [] tok = "\"a\"" -> <<"a">>

ConstValue(tok) ==
    IF tok \in NumberLits THEN IntOf(<<tok>>)
    ELSE IF tok \in StringLits THEN StrOf(LiteralContent(tok))
    ELSE IF tok = "None" THEN NoneValue
    ELSE [type |-> "bool", truth |-> (tok = "True")]

\* An evaluation: the exception raised (or NoExc), the value, and the calls
\* that reached outside the interpreter, in order: `host` holds one record
\* per call of os.system and of sys.stdout.write.
Ev(exc, val, host) == [exc |-> exc, val |-> val, host |-> host]
HostCall(fn, arg) == [fn |-> fn, arg |-> arg]
Raised(exc, host) == Ev(exc, NoneValue, host)

\* an import hook that looks at the last segment of the dotted path
SafeImportLastSegment(name) ==
    LET last == IF name = <<>> THEN "" ELSE name[Len(name)]
    IN  IF last \notin AllowedImports
        THEN Raised(Exc("ImportError", <<"Import not allowed:", " ">> \o name), <<>>)
        ELSE Ev(NoExc, Module(name[1]), <<>>)

\* safe_import: the module name is the token sequence of its dotted path
SafeImport(name) ==
    LET top == IF name = <<>> THEN "" ELSE name[1]
    IN  IF top \notin AllowedImports
        THEN Raised(Exc("ImportError", <<"Import not allowed:", " ">> \o name), <<>>)
        ELSE Ev(NoExc, Module(top), <<>>)

\* a name read by user code: exec_env first, then the builtins table
LookupName(e, id) ==
    IF id \in DOMAIN e THEN Ev(NoExc, e[id], <<>>)
    ELSE IF id \in AllowedImports THEN Ev(NoExc, Module(id), <<>>)
    ELSE IF id \in SafeGlobals \cup SafeBuiltins THEN Ev(NoExc, Function(id), <<>>)
    ELSE Raised(Exc("NameError", <<"name '", id, "' is not defined">>), <<>>)

GetAttr(v, attr) ==
    IF v = Module("sys") /\ attr = "exit" THEN Ev(NoExc, Function("sys.exit"), <<>>)
    ELSE IF v = Module("os") /\ attr = "system" THEN Ev(NoExc, Function("os.system"), <<>>)
    ELSE IF v = Module("os") /\ attr = "path" THEN Ev(NoExc, Module("os.path"), <<>>)
    ELSE IF v = Module("sys") /\ attr = "stdout" THEN Ev(NoExc, Stream, <<>>)
    ELSE IF v = Stream /\ attr = "write" THEN Ev(NoExc, Function("sys.stdout.write"), <<>>)
    ELSE Raised(Exc("AttributeError", <<"object has no attribute '", attr, "'">>), <<>>)

\* len(s) of a text held as tokens
RECURSIVE StrLen(_)
StrLen(text) ==
    IF text = <<>> THEN 0
    ELSE (CASE Head(text) \in {"os"} -> 2 [] Head(text) = "echo" -> 4 [] OTHER -> 1)
         + StrLen(Tail(text))

\* a call of a function value on its arguments
Apply(f, args) ==
    IF f.type # "function"
    THEN Raised(Exc("TypeError", <<"object is not callable">>), <<>>)
    ELSE CASE f.name = "sys.exit" -> Raised(Exc("SystemExit", <<>>), <<>>)
           [] f.name = "os.system" /\ Len(args) = 1 /\ args[1].type = "str" ->
                  Ev(NoExc, IntValue(0), <<HostCall("os.system", args[1].text)>>)
           [] f.name = "sys.stdout.write" /\ Len(args) = 1 /\ args[1].type = "str" ->
                  Ev(NoExc, IntValue(StrLen(args[1].text)),
                     <<HostCall("sys.stdout.write", args[1].text)>>)
           [] f.name = "id" /\ Len(args) = 1 /\ args[1].type = "list" ->
                  Ev(NoExc, IntValue(args[1].addr), <<>>)
           [] f.name = "__import__" /\ Len(args) = 1 /\ args[1].type = "str" ->
                  SafeImport(args[1].text)

RECURSIVE Eval(_, _)
Eval(node, e) ==
    CASE node.kind = "Constant" -> Ev(NoExc, ConstValue(node.name), <<>>)
      [] node.kind = "Name" -> LookupName(e, node.name)
      [] node.kind = "List" ->
            LET item == Eval(node.sub[1], e)
            IN  IF node.sub = <<>> THEN Ev(NoExc, ListValue(<<>>, e[AllocName]), <<>>)
                ELSE IF item.exc # NoExc THEN item
                ELSE Ev(NoExc, ListValue(<<item.val>>, e[AllocName]), item.host)
      [] node.kind = "Attribute" ->
            LET b == Eval(node.sub[1], e)
            IN  IF b.exc # NoExc THEN b
                ELSE LET r == GetAttr(b.val, node.name)
                     IN  Ev(r.exc, r.val, b.host \o r.host)
      [] node.kind = "Call" ->
            LET f == Eval(node.sub[1], e)
                a == IF Len(node.sub) = 2 THEN Eval(node.sub[2], e) ELSE Ev(NoExc, NoneValue, <<>>)
                args == IF Len(node.sub) = 2 THEN <<a.val>> ELSE <<>>
            IN  IF f.exc # NoExc THEN f
                ELSE IF a.exc # NoExc THEN Raised(a.exc, f.host \o a.host)
                ELSE LET r == Apply(f.val, args)
                     IN  Ev(r.exc, r.val, f.host \o a.host \o r.host)

\* the expressions of a print, evaluated left to right until one raises
RECURSIVE EvalAll(_, _)
EvalAll(exprs, e) ==
    IF exprs = <<>> THEN [exc |-> NoExc, vals |-> <<>>, host |-> <<>>]
    ELSE LET first == Eval(PyParse(Head(exprs)), e)
         IN  IF first.exc # NoExc THEN [exc |-> first.exc, vals |-> <<>>, host |-> first.host]
             ELSE LET rest == EvalAll(Tail(exprs), e)
                  IN  [exc |-> rest.exc, vals |-> <<first.val>> \o rest.vals,
                       host |-> first.host \o rest.host]

Abs(n) == IF n < 0 THEN -n ELSE n
RECURSIVE Pow10(_)
Pow10(k) == IF k = 0 THEN 1 ELSE 10 * Pow10(k - 1)
RECURSIVE ZeroPad(_, _)
ZeroPad(ds, width) == IF Len(ds) >= width THEN ds ELSE ZeroPad(<<"0">> \o ds, width)

\* str(v)
Show(v) ==
    CASE v.type = "int" -> (IF v.num < 0 THEN <<"-">> ELSE <<>>) \o DecDigits(Abs(v.num))
      [] v.type = "float" ->
            (IF v.num < 0 THEN <<"-">> ELSE <<>>)
            \o DecDigits(Abs(v.num) \div Pow10(v.scale)) \o <<".">>
            \o (IF v.scale = 0 THEN <<"0">>
                ELSE ZeroPad(DecDigits(Abs(v.num) % Pow10(v.scale)), v.scale))
      [] v.type = "str" -> v.text
      [] v.type = "exception" -> v.exc.msg
      [] v.type = "NoneType" -> <<"None">>
      [] v.type = "bool" -> IF v.truth THEN <<"True">> ELSE <<"False">>
      [] v.type \in {"module", "function"} -> <<"<", v.type, " ", v.name, ">">>

\* what print(*vals, end=end) writes
RECURSIVE JoinShown(_)
JoinShown(vals) ==
    IF vals = <<>> THEN <<>>
    ELSE IF Len(vals) = 1 THEN Show(vals[1])
    ELSE Show(vals[1]) \o <<" ">> \o JoinShown(Tail(vals))
PrintText(vals, end) == JoinShown(vals) \o end

\* the commands among the outside calls, and the text written to sys.stdout
RECURSIVE Commands(_), Written(_)
Commands(host) ==
    IF host = <<>> THEN <<>>
    ELSE (IF Head(host).fn = "os.system" THEN <<Head(host).arg>> ELSE <<>>)
         \o Commands(Tail(host))
Written(host) ==
    IF host = <<>> THEN <<>>
    ELSE (IF Head(host).fn = "sys.stdout.write" THEN Head(host).arg ELSE <<>>)
         \o Written(Tail(host))

\* the writes one statement made, in order: one text per call of
\* sys.stdout.write, then the text of its print if it reached it
Writes(r) ==
    LET calls_out == SelectSeq(r.host, LAMBDA h : h.fn = "sys.stdout.write")
    IN  [i \in 1..Len(calls_out) |-> calls_out[i].arg]
        \o (IF r.out = <<>> THEN <<>> ELSE <<r.out>>)

\* the addresses a statement's allocation can get: none is drawn for a
\* statement that builds no object
Allocations(stmt) ==
    IF \E i \in 1..Len(stmt.exprs) : \E j \in 1..Len(stmt.exprs[i]) : stmt.exprs[i][j] = "["
    THEN Addresses ELSE {0}

\* The effect of one translated statement on the execution environment:
\* the exception it raises (or NoExc), the bindings, the input cursor, and
\* what it appended to the output buffer, to the host's command log and to
\* the history of input_provider calls.
Effect(exc, e, index, out, host, called) ==
    [exc |-> exc, env |-> e, index |-> index, out |-> out, host |-> host, called |-> called]

ImportPath(tokens) ==
    LET stops == {i \in 1..Len(tokens) : tokens[i] = "import"}
    IN  IF stops = {} THEN tokens
        ELSE SubSeq(tokens, 1, (CHOOSE i \in stops : \A j \in stops : i <= j) - 1)

ExecPrint(stmt, e, index) ==
    LET r == EvalAll(stmt.exprs, e)
    IN  IF r.exc # NoExc THEN Effect(r.exc, e, index, <<>>, r.host, <<>>)
        ELSE Effect(NoExc, e, index, PrintText(r.vals, <<"\n">>), r.host, <<>>)

\* print(prompt, end=''); name = input_provider(); result = name
ExecAsk(stmt, e, tape, index) ==
    LET p == EvalAll(stmt.exprs, e)
        shown == IF stmt.exprs = <<>> THEN <<>> ELSE PrintText(p.vals, <<>>)
        r == InputProvider(tape, index)
        bound == IF stmt.name = "" THEN e ELSE Bind(e, stmt.name, r.value)
    IN  IF p.exc # NoExc THEN Effect(p.exc, e, index, <<>>, p.host, <<>>)
        ELSE IF r.raised # NoExc
        THEN Effect(r.raised, e, r.index, shown, p.host, <<CallRecord(r)>>)
        ELSE Effect(NoExc, Bind(bound, "result", r.value), r.index, shown, p.host,
                    <<CallRecord(r)>>)

\* `import a.b` binds a; `from a import x` binds x
ExecImport(stmt, e, index) ==
    LET path == ImportPath(stmt.exprs[1])
        r == SafeImport(path)
    IN  IF r.exc # NoExc THEN Effect(r.exc, e, index, <<>>, <<>>, <<>>)
        ELSE IF stmt.op = "import" THEN Effect(NoExc, Bind(e, path[1], r.val), index, <<>>, <<>>, <<>>)
        ELSE LET name == stmt.exprs[1][Len(stmt.exprs[1])]
                 a == GetAttr(Module(path[1]), name)
             IN  IF a.exc # NoExc
                 THEN Effect(Exc("ImportError", <<"cannot import name '", name, "'">>),
                             e, index, <<>>, <<>>, <<>>)
                 ELSE Effect(NoExc, Bind(e, name, a.val), index, <<>>, <<>>, <<>>)

ExecExpr(stmt, e, index) ==
    LET r == Eval(PyParse(stmt.exprs[1]), e)
    IN  Effect(r.exc, e, index, <<>>, r.host, <<>>)

ExecOne(stmt, e, tape, index) ==
    CASE stmt.op = "try" -> Effect(NoExc, e, index, <<>>, <<>>, <<>>)
      [] stmt.op = "print" -> ExecPrint(stmt, e, index)
      [] stmt.op = "ask" -> ExecAsk(stmt, e, tape, index)
      [] stmt.op \in {"import", "from"} -> ExecImport(stmt, e, index)
      [] stmt.op = "expr" -> ExecExpr(stmt, e, index)

\* ------------------------------------------- block structure of the target
SimpleOps == {"print", "ask", "import", "from", "expr"}

RECURSIVE DottedName(_)
DottedName(t) ==
    /\ Len(t) >= 1 /\ t[1] \in Identifiers
    /\ (Len(t) = 1 \/ (Len(t) >= 3 /\ t[2] = "." /\ DottedName(SubSeq(t, 3, Len(t)))))

\* the passthrough statements are the only ones whose own text can be malformed
StmtWellFormed(stmt) ==
    CASE stmt.op = "import" -> DottedName(stmt.exprs[1])
      [] stmt.op = "from" ->
            LET t == stmt.exprs[1]
            IN  /\ Len(t) >= 3 /\ t[Len(t) - 1] = "import" /\ t[Len(t)] \in Identifiers
                /\ DottedName(SubSeq(t, 1, Len(t) - 2))
      [] OTHER -> TRUE

At(py, j, k, op) == j <= Len(py) /\ py[j].pad = k /\ py[j].stmt.op = op

\* The statements of one block at indentation k, from index i: the index
\* after the block, or 0 when the text is not a well-formed program.
RECURSIVE Stmts(_, _, _), Suite(_, _, _), Clauses(_, _, _, _)
Suite(py, i, k) == IF i <= Len(py) /\ py[i].pad = k THEN Stmts(py, i, k) ELSE 0
Stmts(py, i, k) ==
    IF i > Len(py) THEN i
    ELSE IF py[i].pad < k THEN i
    ELSE IF py[i].pad > k THEN 0
    ELSE IF py[i].stmt.op \in SimpleOps
    THEN (IF StmtWellFormed(py[i].stmt) THEN Stmts(py, i + 1, k) ELSE 0)
    ELSE IF py[i].stmt.op \in {"try", "if"}
    THEN LET j == Suite(py, i + 1, k + PadWidth)
             c == IF j = 0 THEN 0 ELSE Clauses(py, j, k, py[i].stmt.op)
         IN  IF c = 0 THEN 0 ELSE Stmts(py, c, k)
    ELSE 0
Clauses(py, j, k, after) ==
    LET body == Suite(py, j + 1, k + PadWidth)
        then(next) == IF body = 0 THEN 0 ELSE Clauses(py, body, k, next)
    IN  CASE after = "try" ->
                IF At(py, j, k, "except") THEN then("except")
                ELSE IF At(py, j, k, "finally") THEN body
                ELSE 0
          [] after = "except" ->
                IF At(py, j, k, "except") THEN then("except")
                ELSE IF At(py, j, k, "else") THEN then("else")
                ELSE IF At(py, j, k, "finally") THEN body
                ELSE j
          [] after = "else" ->
                IF At(py, j, k, "finally") THEN body ELSE j
          [] after \in {"if", "elif"} ->
                IF At(py, j, k, "elif") THEN then("elif")
                ELSE IF At(py, j, k, "else") THEN body
                ELSE j

\* compile(python_code): does the text parse as a program
PyCompile(py) == Stmts(py, 1, 0) = Len(py) + 1

\* the header whose block holds statement i (0: top level)
Parent(py, i) ==
    LET hs == {h \in 1..(i - 1) : py[h].pad < py[i].pad}
    IN  IF hs = {} THEN 0 ELSE CHOOSE h \in hs : \A g \in hs : g <= h
RECURSIVE Ancestors(_, _)
Ancestors(py, i) ==
    IF i < 1 \/ i > Len(py) \/ Parent(py, i) = 0 THEN {}
    ELSE {Parent(py, i)} \cup Ancestors(py, Parent(py, i))
\* the first line after the block of header h
BlockEnd(py, h) ==
    LET js == {j \in (h + 1)..Len(py) : py[j].pad <= py[h].pad}
    IN  IF js = {} THEN Len(py) + 1 ELSE CHOOSE j \in js : \A g \in js : j <= g
\* where control goes after statement i completes: the handlers of a try
\* whose body (or whose handler) has just been completed are skipped
RECURSIVE SkipHandlers(_, _)
SkipHandlers(py, j) ==
    IF j <= Len(py) /\ py[j].stmt.op = "except" THEN SkipHandlers(py, BlockEnd(py, j)) ELSE j
NextIp(py, i) ==
    IF py[i].stmt.op = "try" THEN i + 1 ELSE SkipHandlers(py, i + 1)
\* the `except Exception` clause that takes an exception raised by statement
\* i (0: none does)
RECURSIVE FindHandler(_, _)
FindHandler(py, i) ==
    LET p == Parent(py, i)
    IN  IF p = 0 THEN 0
        ELSE IF py[p].stmt.op = "try" THEN BlockEnd(py, p)
        ELSE FindHandler(py, p)
\* the names of the handlers left when control moves from i to j
ExitedNames(py, i, j) ==
    {py[h].stmt.name : h \in {g \in Ancestors(py, i) \ Ancestors(py, j) : py[g].stmt.op = "except"}}

\* ---------------------------------------------------------- result records
\* A returned dict: `keys` are the keys it has; a field outside `keys` holds a
\* filler. `translated` is null or the lines of the translated program.
NullTranslated == [null |-> TRUE, lines |-> <<>>]
TranslatedText(lines) == [null |-> FALSE, lines |-> lines]
NoResult == [returned |-> FALSE]
FailureKeys == {"ok", "error", "suggestedFix", "translated", "tale"}
SuccessKeys == {"ok", "output", "translated", "tale"}
Failure(error, fix, translated, tale) ==
    [returned |-> TRUE, keys |-> FailureKeys, ok |-> FALSE, error |-> error,
     suggestedFix |-> fix, translated |-> translated, tale |-> tale, output |-> <<>>]
\* a success record built before the buffer is read
SuccessWithoutOutput(out, translated, tale) ==
    [returned |-> TRUE, keys |-> SuccessKeys, ok |-> TRUE, error |-> <<>>,
     suggestedFix |-> "", translated |-> translated, tale |-> tale, output |-> <<>>]
Success(out, translated, tale) ==
    [returned |-> TRUE, keys |-> SuccessKeys, ok |-> TRUE, error |-> <<>>,
     suggestedFix |-> "", translated |-> translated, tale |-> tale, output |-> out]

FixSyntax == "I could not understand the TALE syntax; check if/else/end, assignments, and helpers."
FixPatterns == "Ensure TALE lines follow the documented patterns."
FixVariable == "Did you define the variable before using it?"
\* (the source puts backquotes around the word ask)
FixInputs == "Provide an input value for each ask line in the Inputs box before running."
FixRuntime == "Check the translated Python to see what went wrong."

\* run_tale_code, lines 952-969: the record returned when to_python raised
TranslationFailure(exc, tale) ==
    IF exc.type = "TaleSyntaxError" THEN Failure(exc.msg, FixSyntax, NullTranslated, tale)
    ELSE Failure(<<"I could not understand:", " ">> \o exc.msg, FixPatterns, NullTranslated, tale)

\* a runtime failure record that leaves the translated program out
RuntimeFailureUntranslated(exc, python_code, tale) ==
    Failure(exc.msg, FixRuntime, NullTranslated, tale)
\* run_tale_code, lines 1001-1024: the record returned for an exception
\* that left exec and that one of the three except clauses takes
RuntimeFailure(exc, python_code, tale) ==
    IF exc.type = "NameError"
    THEN Failure(<<"Unknown variable:", " ">> \o exc.msg, FixVariable, TranslatedText(python_code), tale)
    ELSE IF exc.type = "InputExhausted"
    THEN Failure(exc.msg, FixInputs, TranslatedText(python_code), tale)
    ELSE Failure(exc.msg, FixRuntime, TranslatedText(python_code), tale)

\* re.match(r"Line (\d+):", msg): the number matched, or null
LineOf(msg) ==
    LET ends == {k \in 3..(Len(msg) - 1) :
                    /\ \A i \in 3..k : msg[i] \in Digits
                    /\ msg[k + 1] = ":"}
    IN  IF Len(msg) >= 4 /\ msg[1] = "Line" /\ msg[2] = " " /\ ends # {}
        THEN [null |-> FALSE, n |-> DigitsValue(SubSeq(msg, 3, CHOOSE k \in ends : TRUE))]
        ELSE [null |-> TRUE, n |-> 0]

Diagnostic(line, message) == [line |-> line, message |-> message]
Analysis(ok, diagnostics) == [returned |-> TRUE, ok |-> ok, diagnostics |-> diagnostics]

\* analyze_tale_code, lines 1036-1047: the record returned once to_python
\* has returned or raised `exc`
AnalysisOf(exc) ==
    IF exc = NoExc THEN Analysis(TRUE, <<>>)
    ELSE IF exc.type = "TaleSyntaxError"
    THEN Analysis(FALSE, <<Diagnostic(LineOf(exc.msg), exc.msg)>>)
    ELSE Analysis(FALSE, <<Diagnostic([null |-> TRUE, n |-> 0], <<"Unknown error:", " ">> \o exc.msg)>>)

AnalyzeTaleCode(source) == AnalysisOf(ToPython(source).exc)

\* ---------------------------------------------------------------- bounds
MaxLines == 4        \* lines of a program that is run
MaxRunInputs == 1    \* inputs supplied to a program that is run
MaxScanLines == 3    \* lines of a program that is analysed line by line
MaxThreadLines == 2  \* lines of a program that one of two invocations runs
MaxExprLen == 3      \* tokens of an expression handed to the validator
MaxTextLen == 4      \* lexemes of an expression text handed to the rewriter
MaxRewrites == 2     \* successive applications of the rewriter to one text

\* ------------------------------------------------------------ vocabularies
SampleRaws == {<<"1">>, <<"1", ".">>, <<"a">>}
RunRaws == {<<"1">>, <<"a">>}

\* the lines of the programs that are run
RunLines ==
    {<<"try">>, <<"catch", "e">>, <<"end">>, <<"ask", "a">>, <<"say", "1">>,
     <<"say", ")">>, <<"sys", ".", "exit", "(", ")">>, <<"ask", "\"os\"", "as", "a">>}
\* the lines of the programs that exercise the sandbox
SandboxLines ==
    {<<"try">>, <<"catch", "e">>, <<"say", "1">>,
     <<"say", "__import__", "(", "\"os\"", ")", ".", "system", "(", "\"echo x\"", ")">>,
     <<"import", "socket">>, <<"import", "os", ".", "path">>, <<"import", "evil", ".", "os">>,
     <<"from", "socket", "import", "x">>, <<"say", "x">>}
\* the lines of the programs that are analysed
ScanLines ==
    {<<>>, <<"#", "c">>, <<"note", Q3, "n">>, <<"n", Q3>>, <<"end">>, <<"END">>, <<"else">>,
     <<"elif", "a">>, <<"elif", ")">>, <<"elif", LenRun, "a">>, <<"catch", "e">>,
     <<"catch", "1x">>, <<"finally">>, <<"try">>, <<"say", "true">>, <<"say", ")">>,
     <<"say", LenRun, "a">>, <<"note", Q3>>, <<"for", "each", "x", "in", "a", ")">>,
     <<"say", "formatted", "\"os\"">>, <<"catch">>}

\* ------------------------------------------- specification of the input tape
Raws == SeqsUpTo(Chars, MaxRawLen)
Tapes == SeqsUpTo(SampleRaws, MaxInputs) \cup {<<r>> : r \in Raws}

Idle(source, tape, start) ==
    /\ code = source
    /\ inputs = tape
    /\ input_index = 0
    /\ calls = <<>>
    /\ phase = start
    /\ line_no = 0 /\ indent = 0 /\ in_note = FALSE /\ py_lines = <<>>
    /\ scan_exc = NoExc /\ analysis = NoResult
    /\ ip = 0 /\ env = <<>> /\ output = <<>> /\ host_calls = <<>>
    /\ result = NoResult /\ escaped = NoExc
    /\ printed = <<>>
    /\ sys_stdout = 0

InitInput == runs = <<>> /\ \E tape \in Tapes : Idle(<<>>, tape, "exec")

\* One call of input_provider by user code.
CallInputProvider ==
    /\ phase = "exec"
    /\ code = <<>>
    /\ Len(calls) < MaxCalls
    /\ LET r == InputProvider(inputs, input_index)
       IN  /\ input_index' = r.index
           /\ calls' = Append(calls, CallRecord(r))
    /\ UNCHANGED <<code, inputs, phase, line_no, indent, in_note, py_lines,
                   scan_exc, analysis, ip, env, output, host_calls, result, escaped>>
    /\ UNCHANGED <<printed, runs, sys_stdout>>

NextInput == CallInputProvider

SpecInput == InitInput /\ [][NextInput]_vars

\* ------------------------------------------------ specification of the scan
\* analyze_tale_code, with to_python advancing one source line per step
InitScan ==
    runs = <<>> /\ \E source \in SeqsUpTo(ScanLines, MaxScanLines) : Idle(source, <<>>, "scan")

ScanLine ==
    /\ phase = "scan"
    /\ line_no < Len(code)
    /\ scan_exc = NoExc
    /\ \E st \in {ScanStep(ScanState(line_no, indent, in_note, py_lines, scan_exc),
                           code[line_no + 1])} :
           /\ line_no' = st.line_no
           /\ indent' = st.indent
           /\ in_note' = st.in_note
           /\ py_lines' = st.py_lines
           /\ scan_exc' = st.exc
    /\ UNCHANGED <<code, inputs, input_index, calls, phase, analysis, ip, env, output,
                   host_calls, result, escaped>>
    /\ UNCHANGED <<printed, runs, sys_stdout>>

AnalyzeReturn ==
    /\ phase = "scan"
    /\ line_no = Len(code) \/ scan_exc # NoExc
    /\ analysis' = AnalysisOf(scan_exc)
    /\ phase' = "done"
    /\ UNCHANGED <<code, inputs, input_index, calls, line_no, indent, in_note, py_lines,
                   scan_exc, ip, env, output, host_calls, result, escaped>>
    /\ UNCHANGED <<printed, runs, sys_stdout>>

NextScan == ScanLine \/ AnalyzeReturn

SpecScan == InitScan /\ [][NextScan]_vars

\* --------------------------------------------------- specification of a run
\* run_tale_code, lines 950-969: translate, and return at once on failure
RunTranslate ==
    /\ phase = "start"
    /\ \E t \in {ToPython(code)} :
           IF t.exc # NoExc
           THEN /\ result' = TranslationFailure(t.exc, code)
                /\ phase' = "done"
                /\ UNCHANGED py_lines
           ELSE /\ py_lines' = t.py_lines
                /\ phase' = "translated"
                /\ UNCHANGED result
    /\ UNCHANGED <<code, inputs, input_index, calls, line_no, indent, in_note, scan_exc,
                   analysis, ip, env, output, host_calls, escaped>>
    /\ UNCHANGED <<printed, runs, sys_stdout>>

\* run_tale_code, lines 971-1000: the buffer and the environment are set up
\* and exec compiles the translated text
ExecBegin ==
    /\ phase = "translated"
    /\ output' = <<>>
    /\ env' = <<>>
    /\ IF PyCompile(py_lines)
       THEN phase' = "exec" /\ ip' = 1 /\ UNCHANGED escaped
       ELSE phase' = "unwinding" /\ escaped' = Exc("SyntaxError", <<"invalid syntax">>)
                                /\ UNCHANGED ip
    /\ UNCHANGED <<code, inputs, input_index, calls, line_no, indent, in_note, py_lines,
                   scan_exc, analysis, host_calls, result>>
    /\ UNCHANGED <<printed, runs, sys_stdout>>

\* exec runs the statement at ip; an exception goes to the innermost
\* enclosing `except Exception` clause if it is an Exception and there is
\* one, and leaves exec otherwise
ExecStmt ==
    /\ phase = "exec"
    /\ ip >= 1 /\ ip <= Len(py_lines)
    /\ \E a \in Allocations(py_lines[ip].stmt) :
       \E r \in {ExecOne(py_lines[ip].stmt, Bind(env, AllocName, a), inputs, input_index)} :
       LET handler == IF r.exc.type \in ExceptionTypes THEN FindHandler(py_lines, ip) ELSE 0
           next == NextIp(py_lines, ip)
       IN  /\ input_index' = r.index
           /\ calls' = calls \o r.called
           /\ output' = output \o Written(r.host) \o r.out
           /\ printed' = printed \o Writes(r)
           /\ host_calls' = host_calls \o Commands(r.host)
           /\ IF r.exc = NoExc
              THEN /\ ip' = next
                   /\ env' = Unbind(r.env, ExitedNames(py_lines, ip, next) \cup {AllocName})
                   /\ UNCHANGED <<phase, escaped>>
              ELSE IF handler # 0
              THEN /\ ip' = handler + 1
                   /\ env' = Bind(Unbind(r.env, ExitedNames(py_lines, ip, handler + 1)
                                                \cup {AllocName}),
                                  py_lines[handler].stmt.name, ExcValue(r.exc))
                   /\ UNCHANGED <<phase, escaped>>
              ELSE /\ phase' = "unwinding"
                   /\ escaped' = r.exc
                   /\ env' = Unbind(r.env, {AllocName})
                   /\ UNCHANGED ip
    /\ UNCHANGED <<code, inputs, line_no, indent, in_note, py_lines, scan_exc, analysis, result>>
    /\ UNCHANGED <<runs, sys_stdout>>

\* run_tale_code, lines 1001-1024: an exception that left exec is turned
\* into a record by the except clause that takes it; one that none takes
\* leaves run_tale_code
RunUnwind ==
    /\ phase = "unwinding"
    /\ IF escaped.type \in ExceptionTypes
       THEN /\ result' = RuntimeFailure(escaped, py_lines, code)
            /\ escaped' = NoExc
            /\ phase' = "done"
       ELSE /\ phase' = "escaped"
            /\ UNCHANGED <<result, escaped>>
    /\ UNCHANGED <<code, inputs, input_index, calls, line_no, indent, in_note, py_lines,
                   scan_exc, analysis, ip, env, output, host_calls>>
    /\ UNCHANGED <<printed, runs, sys_stdout>>

\* run_tale_code, lines 1026-1031
RunReturn ==
    /\ phase = "exec"
    /\ ip > Len(py_lines)
    /\ result' = Success(output, TranslatedText(py_lines), code)
    /\ phase' = "done"
    /\ UNCHANGED <<code, inputs, input_index, calls, line_no, indent, in_note, py_lines,
                   scan_exc, analysis, ip, env, output, host_calls, escaped>>
    /\ UNCHANGED <<printed, runs, sys_stdout>>

\* analyze_tale_code called on the same source once the run is over
AnalyzeCall ==
    /\ phase \in {"done", "escaped"}
    /\ ~analysis.returned
    /\ analysis' = AnalyzeTaleCode(code)
    /\ UNCHANGED <<code, inputs, input_index, calls, phase, line_no, indent, in_note,
                   py_lines, scan_exc, ip, env, output, host_calls, result, escaped>>
    /\ UNCHANGED <<printed, runs, sys_stdout>>

Next == RunTranslate \/ ExecBegin \/ ExecStmt \/ RunUnwind \/ RunReturn \/ AnalyzeCall

Init ==
    /\ runs = <<>>
    /\ \E source \in SeqsUpTo(RunLines, MaxLines), tape \in SeqsUpTo(RunRaws, MaxRunInputs) :
           Idle(source, tape, "start")

Spec == Init /\ [][Next]_vars

InitSandbox ==
    runs = <<>> /\ \E source \in SeqsUpTo(SandboxLines, MaxLines) : Idle(source, <<>>, "start")

SpecSandbox == InitSandbox /\ [][Next]_vars

\* --------------------------------------------- specification of the validator
\* _validate_expr called on one expression text
ExprTokens == {"a", "1", "lambda", ":", "[", "]", "(", ")", "for", "in", "."}
LongExprs ==
    {<<"lambda", "a", ":", "a">>, <<"lambda", ":", "lambda", ":", "1">>,
     <<"[", "a", "for", "a", "in", "a", "]">>, <<"{", "a", "for", "a", "in", "a", "}">>,
     <<"(", "a", "for", "a", "in", "a", ")">>, <<"a", "(", "a", "for", "a", "in", "a", ")">>,
     <<"[", "lambda", ":", "a", "for", "a", "in", "a", "]">>,
     <<"a", "[", "1", "]">>, <<"{", "a", "}">>, <<"{", "}">>, <<"f", "\"os\"">>,
     <<"a", ".", "a", "(", "1", ")">>, <<"[", "a", "for", "a", "in", "lambda", ":", "a", "]">>}

InitValidate ==
    /\ runs = <<>>
    /\ \E expr \in SeqsUpTo(ExprTokens, MaxExprLen) \cup LongExprs : Idle(<<expr>>, <<>>, "validate")

\* self._validate_expr(expr, line), the line being the expression itself
ValidateCall ==
    /\ phase = "validate"
    /\ scan_exc' = ValidateExpr(code[1], code[1])
    /\ phase' = "validated"
    /\ UNCHANGED <<code, inputs, input_index, calls, line_no, indent, in_note, py_lines,
                   analysis, ip, env, output, host_calls, result, escaped>>
    /\ UNCHANGED <<printed, runs, sys_stdout>>

NextValidate == ValidateCall

SpecValidate == InitValidate /\ [][NextValidate]_vars

\* --------------------------------- specification of two invocations of a run
\* Two calls of run_tale_code in one process (the server handles a request
\* per thread). Each call has its own locals: its interpreter (code, inputs,
\* cursor), its python_code, its output_buffer, its exec_env. sys.stdout is
\* the one attribute of the one sys module of the process.
Invocations == {1, 2}

\* the single-invocation variables, which the two invocations leave alone
one_run == <<code, inputs, input_index, calls, phase, line_no, indent, in_note,
             py_lines, scan_exc, analysis, ip, env, output, host_calls, result,
             escaped, printed>>

\* the locals of one call of run_tale_code; `saved` is the stream that
\* redirect_stdout found in sys.stdout and puts back on exit
Invocation(source, tape) ==
    [code |-> source, inputs |-> tape, input_index |-> 0, phase |-> "start",
     py_lines |-> <<>>, ip |-> 0, env |-> <<>>, output |-> <<>>, saved |-> 0,
     escaped |-> NoExc, printed |-> <<>>, result |-> NoResult]

\* run_tale_code, lines 949-969, for invocation r
Translate(r) ==
    /\ runs[r].phase = "start"
    /\ \E t \in {ToPython(runs[r].code)} :
           runs' = [runs EXCEPT ![r] =
               IF t.exc # NoExc
               THEN [@ EXCEPT !.phase = "done",
                              !.result = TranslationFailure(t.exc, runs[r].code)]
               ELSE [@ EXCEPT !.phase = "translated", !.py_lines = t.py_lines]]
    /\ UNCHANGED sys_stdout
    /\ UNCHANGED one_run

\* run_tale_code, lines 971-999: the buffer is created, redirect_stdout
\* saves sys.stdout and points it at the buffer, exec compiles the text
EnterRedirect(r) ==
    /\ runs[r].phase = "translated"
    /\ sys_stdout' = r
    /\ runs' = [runs EXCEPT ![r] =
           IF PyCompile(@.py_lines)
           THEN [@ EXCEPT !.phase = "exec", !.ip = 1, !.saved = sys_stdout]
           ELSE [@ EXCEPT !.phase = "raised", !.saved = sys_stdout,
                          !.escaped = Exc("SyntaxError", <<"invalid syntax">>)]]
    /\ UNCHANGED one_run

\* exec runs one statement of invocation r: its prints go to r's buffer, its
\* writes to sys.stdout go to the stream sys.stdout names at that moment
ExecStep(r) ==
    \E me \in {runs[r]} :
        /\ me.phase = "exec"
        /\ me.ip >= 1 /\ me.ip <= Len(me.py_lines)
        /\ \E a \in Allocations(me.py_lines[me.ip].stmt) :
           \E x \in {ExecOne(me.py_lines[me.ip].stmt, Bind(me.env, AllocName, a),
                              me.inputs, me.input_index)} :
           \E handler \in {IF x.exc.type \in ExceptionTypes
                            THEN FindHandler(me.py_lines, me.ip) ELSE 0} :
           \E next \in {IF x.exc = NoExc THEN NextIp(me.py_lines, me.ip) ELSE handler + 1} :
           \E mine \in {[me EXCEPT
                   !.input_index = x.index,
                   !.output = @ \o (IF sys_stdout = r THEN Written(x.host) ELSE <<>>) \o x.out,
                   !.printed = @ \o Written(x.host) \o x.out,
                   !.ip = IF x.exc = NoExc \/ handler # 0 THEN next ELSE @,
                   !.phase = IF x.exc = NoExc \/ handler # 0 THEN @ ELSE "raised",
                   !.escaped = IF x.exc = NoExc \/ handler # 0 THEN @ ELSE x.exc,
                   !.env = IF x.exc = NoExc
                           THEN Unbind(x.env, ExitedNames(me.py_lines, me.ip, next)
                                              \cup {AllocName})
                           ELSE IF handler # 0
                           THEN Bind(Unbind(x.env, ExitedNames(me.py_lines, me.ip, next)
                                                   \cup {AllocName}),
                                     me.py_lines[handler].stmt.name, ExcValue(x.exc))
                           ELSE Unbind(x.env, {AllocName})]} :
               runs' = [i \in Invocations |->
                           IF i = r THEN mine
                           ELSE IF i = sys_stdout
                           THEN [runs[i] EXCEPT !.output = @ \o Written(x.host)]
                           ELSE runs[i]]
        /\ UNCHANGED sys_stdout
        /\ UNCHANGED one_run

\* redirect_stdout.__exit__, line 998: sys.stdout gets the saved stream back,
\* whether exec returned or raised
LeaveRedirect(r) ==
    /\ \/ runs[r].phase = "exec" /\ runs[r].ip > Len(runs[r].py_lines)
       \/ runs[r].phase = "raised"
    /\ sys_stdout' = runs[r].saved
    /\ runs' = [runs EXCEPT ![r].phase = "left"]
    /\ UNCHANGED one_run

\* run_tale_code, lines 1001-1031: the record is built from the buffer as it
\* is when the call returns
Return(r) ==
    /\ runs[r].phase = "left"
    /\ \E me \in {runs[r]} :
           runs' = [runs EXCEPT ![r] =
               IF me.escaped = NoExc
               THEN [me EXCEPT !.phase = "done",
                               !.result = Success(me.output, TranslatedText(me.py_lines), me.code)]
               ELSE IF me.escaped.type \in ExceptionTypes
               THEN [me EXCEPT !.phase = "done",
                               !.result = RuntimeFailure(me.escaped, me.py_lines, me.code)]
               ELSE [me EXCEPT !.phase = "escaped"]]
    /\ UNCHANGED sys_stdout
    /\ UNCHANGED one_run

\* the lines of the programs that two threads run
ThreadLines ==
    {<<"say", "1">>, <<"ask", "a">>, <<"sys", ".", "stdout", ".", "write", "(", "\"a\"", ")">>}
\* the lines of the programs that are run twice
TwiceLines == ThreadLines \cup {<<"say", "id", "of", "[", "1", "]">>}

InitThreads ==
    /\ Idle(<<>>, <<>>, "threads")
    /\ \E p1, p2 \in SeqsUpTo(ThreadLines, MaxThreadLines) :
       \E t1 \in SeqsUpTo({<<"1">>}, MaxRunInputs), t2 \in SeqsUpTo({<<"a">>}, MaxRunInputs) :
           runs = <<Invocation(p1, t1), Invocation(p2, t2)>>

\* any interleaving of the steps of the two invocations
NextThreads ==
    \E r \in Invocations :
        Translate(r) \/ EnterRedirect(r) \/ ExecStep(r) \/ LeaveRedirect(r) \/ Return(r)

SpecThreads == InitThreads /\ [][NextThreads]_vars

\* the same program run twice on the same inputs, the second call made after
\* the first has returned
InitTwice ==
    /\ Idle(<<>>, <<>>, "twice")
    /\ \E p \in SeqsUpTo(TwiceLines, MaxThreadLines), t \in SeqsUpTo(RunRaws, MaxRunInputs) :
           runs = <<Invocation(p, t), Invocation(p, t)>>

InTurn(r) == r = 2 => runs[1].phase \in {"done", "escaped"}
NextTwice ==
    \E r \in Invocations :
        \/ InTurn(r) /\ Translate(r)
        \/ InTurn(r) /\ EnterRedirect(r)
        \/ InTurn(r) /\ ExecStep(r)
        \/ InTurn(r) /\ LeaveRedirect(r)
        \/ InTurn(r) /\ Return(r)

SpecTwice == InitTwice /\ [][NextTwice]_vars

\* ==================================================================== claims

\* ---- SpecScan: to_python, one line at a time

\* C1: the block depth `indent` is never negative after any line of
\* to_python, and an `end` line met while indent is 0 leaves indent at 0 and
\* emits no Python line.
C1_IndentNeverNegative ==
    /\ [](indent >= 0)
    /\ [][(/\ phase = "scan" /\ line_no < Len(code) /\ scan_exc = NoExc
           /\ ~in_note /\ indent = 0
           /\ Len(code[line_no + 1]) = 1 /\ code[line_no + 1][1] \in {"end", "END"})
          => (indent' = 0 /\ py_lines' = py_lines /\ scan_exc' = NoExc)]_vars

\* an `end` at depth 0, after a block was opened and closed, has been scanned
C1_EndAtTopLevel ==
    /\ phase = "scan" /\ line_no = 3 /\ Len(code) = 3
    /\ code[1] = <<"try">> /\ code[2] = <<"end">> /\ code[3] = <<"end">>
    /\ indent = 0 /\ Len(py_lines) = 1

\* ---- SpecInput: the input tape

\* C2: the k-th call of input_provider returns the coerced k-th element of
\* the inputs, the cursor counts the successful calls and never exceeds the
\* number of inputs, and every call made once the inputs are used up raises
\* InputExhausted and leaves the cursor where it was.
C2_InputsInOrder ==
    /\ input_index <= Len(inputs)
    /\ input_index = Min(Len(calls), Len(inputs))
    /\ \A k \in 1..Len(calls) :
          IF k <= Len(inputs)
          THEN calls[k] = [raised |-> NoExc, value |-> Coerce(inputs[k])]
          ELSE calls[k].raised.type = "InputExhausted"

\* two different inputs were delivered and two more calls were refused
C2_TapeUsedUp ==
    /\ Len(inputs) = 2 /\ inputs[1] # inputs[2]
    /\ Len(calls) = 4 /\ input_index = 2
    /\ calls[2].raised = NoExc /\ calls[3].raised # NoExc

\* the strings of the claim's two patterns, over the characters of the model
C3_Signs == {<<>>, <<"+">>, <<"-">>}
C3_DigitRuns == SeqsUpTo(Digits \cap Chars, MaxRawLen)
C3_IntTexts == {s \o d : s \in C3_Signs, d \in C3_DigitRuns \ {<<>>}}
C3_FloatTexts ==
    {s \o w \o <<".">> \o f : s \in C3_Signs,
                              w \in C3_DigitRuns, f \in C3_DigitRuns} \
    {s \o <<".">> : s \in C3_Signs}

C4_ExhaustedAskFailsRun ==
    (/\ phase = "done" /\ result.returned
     /\ \E k \in 1..Len(calls) : calls[k].raised.type = "InputExhausted")
    => /\ ~result.ok
       /\ result.error # <<>> /\ result.error[1] = "No more inputs"
       /\ result.suggestedFix = FixInputs
       /\ result.translated = TranslatedText(py_lines)

\* C5: when a line of the program cannot be translated, run returns ok
\* false with translated null and tale equal to the submitted code, and no
\* part of the program was executed: no input consumed, no output produced.
C5_NothingRunsOnTranslationFailure ==
    (/\ phase \in {"done", "escaped"}
     /\ ScanFrom(ScanStart, code).exc # NoExc)
    => /\ result.returned /\ ~result.ok
       /\ result.translated = NullTranslated
       /\ result.tale = code
       /\ result.keys = FailureKeys
       /\ input_index = 0 /\ calls = <<>>
       /\ output = <<>> /\ host_calls = <<>>

\* a run with an input to take and a line to print before the bad line
C5_BadLineAfterGoodLines ==
    /\ phase = "done" /\ result.returned
    /\ Len(inputs) = 1
    /\ code = <<<<"ask", "a">>, <<"say", "1">>, <<"say", ")">>>>
    /\ result.translated = NullTranslated

\* C6: no failure of the sandboxed execution leaves run_tale_code as an
\* exception.
C6_NoExceptionLeavesRun == phase # "escaped"

\* C10: for every code, analyze reports ok exactly when run on the same code
\* with no inputs returns a result whose translated is not null.
C10_AnalyzeAgreesWithRun ==
    (/\ analysis.returned /\ inputs = <<>> /\ phase \in {"done", "escaped"})
    => (analysis.ok <=> (result.returned /\ ~result.translated.null))

\* ---- SpecSandbox: imports and the builtins table

\* C7: running `say __import__("os").system("echo x")` returns ok false and
\* the host's system function is never invoked.
C7_DunderImportBlocked ==
    (code = <<<<"say", "__import__", "(", "\"os\"", ")", ".", "system", "(",
                "\"echo x\"", ")">>>>)
    => /\ host_calls = <<>>
       /\ (phase = "done" => (result.returned /\ ~result.ok))

\* the import statement at `i` names a module whose first segment is not one
\* of the seven allowed names
C8_Disallowed(i) ==
    /\ i \in 1..Len(py_lines)
    /\ py_lines[i].stmt.op \in {"import", "from"}
    /\ py_lines[i].stmt.exprs[1][1] \notin
           {"math", "random", "datetime", "json", "csv", "os", "sys"}
C8_ModulePath(i) ==
    LET t == py_lines[i].stmt.exprs[1]
    IN  IF py_lines[i].stmt.op = "import" THEN t
        ELSE SubSeq(t, 1, (CHOOSE j \in 1..Len(t) : t[j] = "import") - 1)
C8_ImportError(i) ==
    [type |-> "ImportError", msg |-> <<"Import not allowed:", " ">> \o C8_ModulePath(i)]
C8_InsideTry(i) == \E h \in Ancestors(py_lines, i) : py_lines[h].stmt.op = "try"

\* C8: executing `import M` or `from M import ...` with the first segment of
\* M outside the allowed set raises the import error without loading or
\* binding anything, and when the statement is not inside a try block run
\* returns ok false with that error.
C8_ImportsBlocked ==
    /\ [][(phase = "exec" /\ C8_Disallowed(ip))
          => /\ host_calls' = host_calls
             /\ \A x \in DOMAIN env' :
                    env'[x].type = "module" => (x \in DOMAIN env /\ env[x] = env'[x])
             /\ IF C8_InsideTry(ip)
                THEN /\ phase' = "exec"
                     /\ \E x \in DOMAIN env' :
                            env'[x] = [type |-> "exception", exc |-> C8_ImportError(ip)]
                ELSE /\ phase' = "unwinding"
                     /\ escaped' = C8_ImportError(ip)]_vars
    /\ [][(phase = "unwinding" /\ escaped.type = "ImportError")
          => /\ result'.returned /\ ~result'.ok
             /\ result'.error = escaped.msg
             /\ phase' = "done"]_vars

\* `import evil.os` was executed outside any try block and the run returned
C8_ImportRefused ==
    /\ phase = "done" /\ result.returned /\ ~result.ok
    /\ code = <<<<"say", "1">>, <<"import", "evil", ".", "os">>>>
    /\ result.error = <<"Import not allowed:", " ", "evil", ".", "os">>
    /\ output # <<>>

\* ---- SpecScan: analyze_tale_code

\* C9: when the translation of the code fails on the line at position N,
\* analyze returns ok false with exactly one diagnostic whose message begins
\* `Line N:` and whose line is N.
C9_DiagnosticNamesTheLine ==
    (phase = "done" /\ scan_exc # NoExc)
    => /\ analysis.returned /\ ~analysis.ok
       /\ Len(analysis.diagnostics) = 1
       /\ analysis.diagnostics[1].line = [null |-> FALSE, n |-> line_no]
       /\ Len(analysis.diagnostics[1].message) > Len(LinePrefix(line_no))
       /\ SubSeq(analysis.diagnostics[1].message, 1, Len(LinePrefix(line_no)))
              = LinePrefix(line_no)

\* ---- SpecThreads: two invocations of run_tale_code, interleaved

\* C11: when two runs execute concurrently, each one's result holds exactly
\* the text its own program wrote, in order, and each ask took its value
\* from its own input list.
C11_RunsAreIsolated ==
    \A r \in Invocations :
        (runs[r].result.returned /\ runs[r].result.ok)
        => /\ runs[r].result.output = runs[r].printed
           /\ \A x \in DOMAIN runs[r].env :
                  \E i \in 1..Len(runs[r].inputs) : runs[r].env[x] = Coerce(runs[r].inputs[i])

\* ---- SpecValidate: _validate_expr on one expression

\* the node classes that every lambda or comprehension carries besides the
\* allow-listed ones: its parameter list, its parameters, its bound names
C12_Carried == {"arguments", "arg", "Store"}

\* C12: the validator accepts every lambda and every comprehension whose
\* parts are allow-listed constructs, and raises "I could not understand"
\* only for an expression that does not parse or that holds a construct
\* outside the allow-list.
C12_LambdasAndComprehensionsPass ==
    phase = "validated"
    => \E tree \in {PyParse(code[1])} :
          /\ (/\ tree.kind \in {"Lambda", "ListComp", "SetComp", "GeneratorExp"}
              /\ NodeKinds(tree) \subseteq AllowedNodes \cup C12_Carried)
             => scan_exc = NoExc
          /\ scan_exc # NoExc
             => \/ tree.kind = "SyntaxError"
                \/ ~(NodeKinds(tree) \subseteq AllowedNodes \cup C12_Carried)

\* ---- SpecScan: the statements to_python emits

\* C13: every expression that to_python has placed into an emitted
\* statement passes the validator, so no expression that does not parse or
\* that holds a construct outside the allow-list is part of a translated
\* program.
C13_EmittedExpressionsValidated ==
    \A i \in 1..Len(py_lines) :
        py_lines[i].stmt.op \notin {"import", "from"}
        => \A j \in 1..Len(py_lines[i].stmt.exprs) :
               ValidateExpr(py_lines[i].stmt.exprs[j], <<>>) = NoExc

\* C14: a `say formatted <s>` line whose payload is a quoted string literal
\* translates, to the print of the literal with an f prefix.
C14_SayFormattedTranslates ==
    (/\ line_no >= 1
     /\ Len(code[1]) = 3 /\ code[1][1] = "say" /\ code[1][2] = "formatted"
     /\ code[1][3] \in StringLits)
    => /\ scan_exc = NoExc
       /\ py_lines[1] = [pad |-> 0, stmt |-> Stmt("print", "", <<<<"f", code[1][3]>>>>)]

\* the lines of the comment that opens on the first line of the source: from
\* the `note """` line to the next later line that ends with the delimiter
C15_CommentLines ==
    IF Len(code) >= 1 /\ StartsWith(code[1], "note") /\ code[1][2] = Q3
    THEN {k \in 1..Len(code) :
            \E last \in 2..Len(code) :
                /\ k <= last
                /\ EndsWithDelim(code[last])
                /\ \A j \in 2..(last - 1) : ~EndsWithDelim(code[j])}
    ELSE {}

\* C15: scanning a line of a multi-line comment emits nothing, leaves the
\* block cursor as it was and raises nothing, whatever the line looks like.
C15_CommentLinesAreSkipped ==
    [][(line_no' = line_no + 1 /\ line_no' \in C15_CommentLines)
       => (py_lines' = py_lines /\ indent' = indent /\ scan_exc' = NoExc)]_vars

\* ---- SpecSandbox: the record of a run that failed while executing

\* C16: when the exception that ends the run is the read of a name n bound
\* nowhere, the run returns ok false with the error `Unknown variable: n`,
\* the fix "Did you define the variable before using it?" and the translated
\* program; every other runtime failure is returned with its own message and
\* the fix "Check the translated Python to see what went wrong."
C16_RuntimeFailureRecords ==
    [][(phase = "unwinding" /\ phase' = "done")
       => /\ result'.returned /\ ~result'.ok
          /\ result'.translated = TranslatedText(py_lines)
          /\ IF escaped.type = "NameError"
             THEN /\ result'.error = <<"Unknown variable:", " ", escaped.msg[2]>>
                  /\ result'.suggestedFix = FixVariable
             ELSE /\ result'.error = escaped.msg
                  /\ result'.suggestedFix = FixRuntime]_vars

\* ---- Spec: the output of a run that succeeded

\* the texts of a sequence of writes, joined in order
RECURSIVE C17_Joined(_)
C17_Joined(texts) == IF texts = <<>> THEN <<>> ELSE Head(texts) \o C17_Joined(Tail(texts))

\* C17: the output of a successful run is the concatenation, in execution
\* order, of everything the program printed: the text of each say and the
\* prompt of each ask (without a newline); nothing is dropped, duplicated or
\* reordered.
C17_OutputIsWhatWasPrinted ==
    (phase = "done" /\ result.ok) => result.output = C17_Joined(printed)

\* a successful run that printed an ask prompt and then said something
C17_PromptThenSay ==
    /\ phase = "done" /\ result.ok
    /\ \E i, j \in 1..Len(printed) :
          i < j /\ printed[i] = <<"os">> /\ printed[j] = <<"1", "\n">>

\* ---- SpecTwice: the same program run twice, one call after the other

\* C18: two runs of the same code on the same inputs return records with
\* the same translated program and the same output.
C18_SameCodeSameResult ==
    (/\ runs[1].result.returned /\ runs[2].result.returned
     /\ runs[1].code = runs[2].code /\ runs[1].inputs = runs[2].inputs)
    => /\ runs[1].result.translated = runs[2].result.translated
       /\ runs[1].result.output = runs[2].result.output

\* ---- Spec: the shape of the record a run returns

\* C19: every record returned by a run has ok and tale, tale being the
\* code; with ok true it has output and a non-null translated and no error;
\* with ok false it has error and suggestedFix and no output, and its
\* translated is null exactly when the failure happened during translation.
C19_RecordShape ==
    result.returned
    => /\ {"ok", "tale"} \subseteq result.keys
       /\ result.tale = code
       /\ result.ok
          => /\ {"output", "translated"} \subseteq result.keys
             /\ ~result.translated.null
             /\ "error" \notin result.keys
       /\ ~result.ok
          => /\ {"error", "suggestedFix", "translated"} \subseteq result.keys
             /\ "output" \notin result.keys
             /\ result.translated.null <=> ScanFrom(ScanStart, code).exc # NoExc

\* a run whose program translated and then failed while executing
C19_FailedWhileExecuting ==
    /\ result.returned /\ ~result.ok
    /\ ~result.translated.null
    /\ result.translated.lines # <<>>

\* ---- SpecScan: indentation and order of the emitted statements

\* the statement forms that are block headers continuing an open block, and
\* the ones that open a block
C20_Continuations == {"elif", "else", "except", "finally"}
C20_Openers == {"if", "try", "for"}

\* C20: each line to_python consumes emits at most one statement, after the
\* ones already emitted. A continuation header (else, elif, catch, finally)
\* is emitted at 4 x max(indent - 1, 0) spaces and leaves the cursor one above
\* that level; any other statement is emitted at 4 x indent spaces and raises
\* the cursor by one if it opens a block and leaves it unchanged otherwise;
\* the only lines that emit nothing are end lines and skipped lines (blank,
\* comment and note lines), and a skipped line leaves the cursor unchanged.
C20_PaddingFollowsCursor ==
    [][line_no' = line_no + 1
       => \E line \in {code[line_no + 1]}, below \in {IF indent > 0 THEN indent - 1 ELSE 0} :
          /\ Len(py_lines') \in {Len(py_lines), Len(py_lines) + 1}
          /\ SubSeq(py_lines', 1, Len(py_lines)) = py_lines
          /\ Len(py_lines') = Len(py_lines) + 1
             => \E new \in {py_lines'[Len(py_lines')]} :
                   IF new.stmt.op \in C20_Continuations
                   THEN new.pad = 4 * below /\ indent' = below + 1
                   ELSE /\ new.pad = 4 * indent
                        /\ indent' = IF new.stmt.op \in C20_Openers THEN indent + 1 ELSE indent
          /\ (Len(py_lines') = Len(py_lines) /\ scan_exc' = NoExc)
             => \/ IsWord(line, "end") /\ ~in_note /\ indent' = below
                \/ /\ \/ in_note
                      \/ line = <<>>
                      \/ line[1] = "#"
                      \/ Len(line) >= 2 /\ line[1] = "note" /\ line[2] = Q3
                   /\ indent' = indent]_vars

\* a catch header emitted at the level of its try, its body one level deeper
C20_HeaderAndBody ==
    \E i \in 1..(Len(py_lines) - 1) :
        /\ py_lines[i].stmt.op = "except" /\ py_lines[i].pad = 0
        /\ py_lines[i + 1].pad = 4

\* ---- SpecScan: a catch line without a name

\* C21: a line that is the word catch alone is a mid-block marker: the
\* cursor is dedented, the handler header binding the name error is emitted
\* at the dedented level, and the cursor is indented again.
C21_BareCatchIsHandler ==
    [][(line_no' = line_no + 1 /\ ~in_note /\ code[line_no + 1] = <<"catch">>)
       => /\ scan_exc' = NoExc
          /\ py_lines' = Append(py_lines, [pad |-> Pad(Dedent(indent)),
                                           stmt |-> Stmt("except", "error", <<>>)])
          /\ indent' = Dedent(indent) + 1]_vars

\* ------------------------------------ the expression rewriter on spelled text
\* Here an expression is spelled out: a sequence of lexemes in which a word
\* (a maximal run of word characters) is one lexeme and every blank, quote
\* and punctuation character is a lexeme of its own; `->` is one lexeme.
\* No two words are adjacent. The words of the vocabulary are identifiers
\* and none of them is a helper keyword of _transform_expr other than
\* lambda, so the helper branches of lines 576-773 do not apply.
Quote == "\""
TextWords == {"a", "word", "lambda", "true"}
TextChars == {" ", Quote, ":", "->", "[", "]", "+"}
IsWordLexeme(x) == x \notin OperatorChars \cup {" ", Quote}

\* str.strip()
RECURSIVE LStripText(_)
LStripText(t) == IF t # <<>> /\ Head(t) = " " THEN LStripText(Tail(t)) ELSE t
RECURSIVE RStripText(_)
RStripText(t) ==
    IF t # <<>> /\ t[Len(t)] = " " THEN RStripText(SubSeq(t, 1, Len(t) - 1)) ELSE t
StripText(t) == RStripText(LStripText(t))

\* TaleInterpreter._looks_like_string
LooksLikeStringText(text) ==
    LET trimmed == StripText(text)
        n == Len(trimmed)
    IN  IF n >= 3 /\ trimmed[1] = Quote /\ trimmed[2] = Quote /\ trimmed[3] = Quote
        THEN trimmed[n] = Quote /\ trimmed[n - 1] = Quote /\ trimmed[n - 2] = Quote
        ELSE n >= 2 /\ trimmed[1] = Quote /\ trimmed[n] = Quote

\* TaleInterpreter._normalize_dict: re.sub of
\*   (?<!["'])\b(?P<key>[A-Za-z_][\w]*)\s*:   by   "\g<key>":
\* scanning from lexeme i. A match starts at a word that no quote precedes
\* and runs over the blanks after it to a colon.
ColonAfter(t, i) ==
    {j \in (i + 1)..Len(t) : t[j] = ":" /\ \A k \in (i + 1)..(j - 1) : t[k] = " "}
RECURSIVE NormalizeDictFrom(_, _)
NormalizeDictFrom(t, i) ==
    IF i > Len(t) THEN <<>>
    ELSE IF /\ IsWordLexeme(t[i])
            /\ ~(i > 1 /\ t[i - 1] = Quote)
            /\ ColonAfter(t, i) # {}
    THEN <<Quote, t[i], Quote, ":">>
         \o NormalizeDictFrom(t, (CHOOSE j \in ColonAfter(t, i) : TRUE) + 1)
    ELSE <<t[i]>> \o NormalizeDictFrom(t, i + 1)
NormalizeDict(expr) == NormalizeDictFrom(expr, 1)

\* shlex.split(expr, posix=False): the tokens read from lexeme i on, `tok`
\* being the token under construction and `state` one of " " (between
\* tokens), "a" (in a word) and Quote (in a quoted part, which ends its token
\* at the closing quote). A text that ends inside a quoted part makes shlex
\* raise ValueError: the result is then <<"ValueError">>.
RECURSIVE ShlexFrom(_, _, _, _)
ShlexFrom(t, i, state, tok) ==
    IF i > Len(t)
    THEN IF state = Quote THEN <<"ValueError">>
         ELSE IF tok = <<>> THEN <<>> ELSE <<tok>>
    ELSE IF state = " "
    THEN IF t[i] = " " THEN ShlexFrom(t, i + 1, " ", <<>>)
         ELSE ShlexFrom(t, i + 1, IF t[i] = Quote THEN Quote ELSE "a", <<t[i]>>)
    ELSE IF state = Quote
    THEN IF t[i] = Quote
         THEN CHOOSE r \in {IF rest = <<"ValueError">> THEN rest ELSE <<Append(tok, Quote)>> \o rest
                            : rest \in {ShlexFrom(t, i + 1, " ", <<>>)}} : TRUE
         ELSE ShlexFrom(t, i + 1, Quote, Append(tok, t[i]))
    ELSE IF t[i] = " "
         THEN CHOOSE r \in {IF rest = <<"ValueError">> THEN rest ELSE <<tok>> \o rest
                            : rest \in {ShlexFrom(t, i + 1, " ", <<>>)}} : TRUE
         ELSE ShlexFrom(t, i + 1, "a", Append(tok, t[i]))

\* str.split(): the maximal runs of non-blank lexemes
RECURSIVE SplitFrom(_, _, _)
SplitFrom(t, i, tok) ==
    IF i > Len(t) THEN (IF tok = <<>> THEN <<>> ELSE <<tok>>)
    ELSE IF t[i] = " "
    THEN (IF tok = <<>> THEN <<>> ELSE <<tok>>) \o SplitFrom(t, i + 1, <<>>)
    ELSE SplitFrom(t, i + 1, Append(tok, t[i]))

\* the try/except around shlex.split in the call shorthand
ShorthandParts(expr) ==
    CHOOSE r \in {IF parts = <<"ValueError">> THEN SplitFrom(expr, 1, <<>>) ELSE parts
                  : parts \in {ShlexFrom(expr, 1, " ", <<>>)}} : TRUE

\* ', '.join(args)
RECURSIVE JoinArgs(_)
JoinArgs(args) ==
    IF args = <<>> THEN <<>>
    ELSE IF Len(args) = 1 THEN args[1]
    ELSE args[1] \o <<",", " ">> \o JoinArgs(Tail(args))

ArrowAt(t) == {k \in 1..Len(t) : t[k] = "->"}

\* TaleInterpreter._transform_expr on a spelled text: the string-literal
\* shortcut, the lambda arrow, the call shorthand, then _normalize_dict and
\* the keyword substitutions.
RECURSIVE TransformText(_)
TransformText(text) ==
    LET expr == StripText(text)
    IN  IF LooksLikeStringText(expr) THEN expr
        ELSE IF Len(expr) >= 2 /\ expr[1] = "lambda" /\ expr[2] = " " /\ ArrowAt(expr) # {}
        THEN LET k == CHOOSE i \in ArrowAt(expr) : \A j \in ArrowAt(expr) : i <= j
             IN  <<"lambda", " ">> \o StripText(SubSeq(expr, 3, k - 1)) \o <<":", " ">>
                 \o TransformText(SubSeq(expr, k + 1, Len(expr)))
        ELSE IF /\ Len(expr) >= 2 /\ IsWordLexeme(expr[1]) /\ expr[2] = " "
                /\ \A i \in 1..Len(expr) : expr[i] \notin OperatorChars
                /\ Len(ShorthandParts(expr)) > 1
        THEN LET parts == ShorthandParts(expr)
             IN  parts[1] \o <<"(">>
                 \o JoinArgs([i \in 1..(Len(parts) - 1) |-> TransformText(parts[i + 1])])
                 \o <<")">>
        ELSE LET keyed == NormalizeDict(expr)
             IN  [i \in 1..Len(keyed) |-> NormalizeKeyword(keyed[i])]

\* ---------------------------------------- specification of the rewriter
\* _transform_expr applied to a text, and then again to what it returned
WellSpelled(t) == \A i \in 1..(Len(t) - 1) : ~(IsWordLexeme(t[i]) /\ IsWordLexeme(t[i + 1]))
LongTexts ==
    {<<"a", " ", "+", " ", Quote, "word", ":", " ", Quote>>,
     <<"a", " ", "+", " ", Quote, "a", " ", "word", ":", " ", Quote>>,
     <<"lambda", " ", "a", " ", "->", " ", "a", " ", "+", " ", "a">>,
     <<"lambda", " ", "a", ":", " ", "a", " ", "+", " ", "a">>,
     <<"a", "[", "a", ":", "word", "]">>,
     <<"a", " ", Quote, "a", " ", "word", Quote>>}

InitRewrite ==
    /\ runs = <<>>
    /\ \E text \in {t \in SeqsUpTo(TextWords \cup TextChars, MaxTextLen) : WellSpelled(t)}
                   \cup LongTexts :
           Idle(<<text>>, <<>>, "rewrite")

\* self._transform_expr(expr), expr being the text or the last text returned
TransformCall ==
    /\ phase = "rewrite"
    /\ Len(calls) < MaxRewrites
    /\ \E expr \in {IF calls = <<>> THEN code[1] ELSE calls[Len(calls)].value} :
           calls' = Append(calls, [raised |-> NoExc, value |-> TransformText(expr)])
    /\ UNCHANGED <<code, inputs, input_index, phase, line_no, indent, in_note, py_lines,
                   scan_exc, analysis, ip, env, output, host_calls, result, escaped>>
    /\ UNCHANGED <<printed, runs, sys_stdout>>

NextRewrite == TransformCall

SpecRewrite == InitRewrite /\ [][NextRewrite]_vars

\* ---- SpecRewrite: string literals under the rewriter

\* the positions of the quotes of a text, and whether they pair up into
\* string literals: an even number of them, no three in a row
C22_QuotesAt(t) == {i \in 1..Len(t) : t[i] = Quote}
C22_Paired(t) ==
    /\ Cardinality(C22_QuotesAt(t)) % 2 = 0
    /\ \A i \in 1..(Len(t) - 2) : ~(t[i] = Quote /\ t[i + 1] = Quote /\ t[i + 2] = Quote)
\* the text inside each string literal, in order
RECURSIVE C22_Contents(_, _, _)
C22_Contents(t, i, open) ==
    IF i > Len(t) THEN <<>>
    ELSE IF t[i] # Quote THEN C22_Contents(t, i + 1, open)
    ELSE IF open = 0 THEN C22_Contents(t, i + 1, i)
    ELSE <<SubSeq(t, open + 1, i - 1)>> \o C22_Contents(t, i + 1, 0)

\* s is t with some of its elements left out
RECURSIVE C22_Within(_, _)
C22_Within(s, t) ==
    IF s = <<>> THEN TRUE
    ELSE IF t = <<>> THEN FALSE
    ELSE IF Head(s) = Head(t) THEN C22_Within(Tail(s), Tail(t))
    ELSE C22_Within(s, Tail(t))

\* C22: the rewriter quotes a bare identifier before a colon only outside
\* string literals, and leaves the inside of every string literal of an
\* expression as it was: the string literals of the expression are, in
\* order and with the same text inside, among the string literals of what
\* the rewriter returns (which has, besides them, the keys it has quoted).
C22_StringLiteralsUntouched ==
    (Len(calls) >= 1 /\ C22_Paired(code[1]))
    => C22_Within(C22_Contents(code[1], 1, 0), C22_Contents(calls[1].value, 1, 0))

\* ------------------------------------- specification of assignment lines
\* analyze_tale_code on a one-line program: an assignment `<name> is <expr>`,
\* or a bare word
AssignNames == {"a", "x", "returned", "yields", "raised", "return"}
AssignExprs ==
    {<<"1">>, <<"a">>, <<"true">>, <<"\"os\"">>, <<"len", "a">>, <<")">>, <<"a", "1">>,
     <<"[", "1", "]">>, <<"a", ".", "x">>}
AssignLines ==
    {<<n, "is">> \o e : n \in AssignNames, e \in AssignExprs}
    \cup {<<"return">>, <<"returned">>, <<"raise">>, <<"yields">>}

InitAssign == runs = <<>> /\ \E line \in AssignLines : Idle(<<line>>, <<>>, "scan")

SpecAssign == InitAssign /\ [][NextScan]_vars

\* ---- SpecAssign: assignment lines

\* the words that begin a statement form
C23_StatementKeywords ==
    {"if", "try", "for", "say", "ask", "return", "yield", "raise", "import", "from",
     "end", "else", "elif", "catch", "finally", "note"}

\* C23: a line `<name> is <expr>`, the name an identifier that is not a
\* statement keyword and the expression one that rewrites to a valid
\* expression, translates to the assignment `<name> = <rewritten expr>` at
\* the current level and opens no block; so it is for names that begin with
\* the letters of a keyword (returned, yields, raised).
C23_AssignmentTranslates ==
    (/\ phase = "scan" /\ line_no = 1
     /\ Len(code[1]) >= 3 /\ code[1][2] = "is"
     /\ code[1][1] \in Identifiers \ C23_StatementKeywords
     /\ CheckedExpr(SubSeq(code[1], 3, Len(code[1])), code[1]).exc = NoExc)
    => /\ scan_exc = NoExc
       /\ py_lines = <<[pad |-> 0,
                        stmt |-> Stmt("assign", code[1][1],
                                      <<TransformExpr(SubSeq(code[1], 3, Len(code[1]))).text>>)]>>
       /\ indent = 0

\* ---- SpecRewrite: the rewriter applied to its own output

\* C24: the rewriter is idempotent: applied to a text it has returned, it
\* returns that text again. (The canonical forms it produces, such as the
\* lambda `lambda a: a + a` it makes of `lambda a -> a + a`, are then left
\* as they are.)
C24_RewriterIdempotent ==
    Len(calls) >= 2 => calls[2].value = calls[1].value

\* ---- SpecThreads: the stream sys.stdout names once the runs are over

\* C25: once every concurrent run has entered and left its capture of
\* standard output, sys.stdout names the stream it named before the first
\* run: no run's output buffer is left installed, where the direct writes of
\* a later run would land.
C25_StdoutRestored ==
    (\A r \in Invocations : runs[r].phase \in {"left", "done", "escaped"})
    => sys_stdout = 0

====
